---- MODULE Spec2Model ----
(***************************************************************************)
(* Call-lifecycle orchestration core of the "talk to yourself" app:         *)
(* the onboarding pipeline (enqueue + process routes), the manual call      *)
(* dispatcher with its reconciliation pass (calls route), the scheduled     *)
(* call routes (schedule / cancel) and the due-call sweep (future route).   *)
(*                                                                         *)
(* Every handler is a sequence of awaited network round trips.  Each       *)
(* round trip is one atomic step here, so that concurrent invocations       *)
(* interleave exactly at the awaits.  The answer of a round trip is an      *)
(* input: "ok" (2xx, effect applied), "nonok" (non-2xx, effect not          *)
(* applied) or "raise" (fetch rejects, effect not applied).                 *)
(*                                                                         *)
(* Requests that touch no record another invocation reads (storage and      *)
(* provider requests, inserts into tables only the same handler reads)      *)
(* commute with every step of every other invocation; each is folded into   *)
(* the step of the next request of its handler that reads or writes a       *)
(* shared record.  The order of the requests inside a step is the           *)
(* handler's order.                                                         *)
(***************************************************************************)
EXTENDS Integers, Sequences, FiniteSets, TLC

\* ---------------------------------------------------------------- bounds
\* concurrent processOnboarding invocations
NumRuns == 2
\* onboarding attempts (timestamp + job rows) a user may create
MaxJobs == 2

Users == {"u1", "u2"}
Runs == 1..NumRuns

\* a null column / absent id
NULL == 0

Outcomes == {"ok", "nonok", "raise"}

SetupStatus ==
  {"new", "voice_uploaded", "voice_created", "agent_created", "ready", "error"}

VARIABLES
  profiles,   \* table profiles: one row per user (or absent)
  jobs,       \* table onboarding_jobs: rows per user (all inserted 'queued')
  timestamps, \* table timestamps: rows per user
  run,        \* processOnboarding invocations
  enq,        \* enqueue invocations, one in flight per user
  boot,       \* bootstrap invocations (GET /api/bootstrap)
  calls,      \* table calls: rows in insertion order, id = position
  scheduled,  \* table scheduled_calls: rows in insertion order, id = position
  now,        \* the wall clock, in minutes
  sc,         \* startCall invocations (POST /api/calls)
  sw          \* runDueCalls invocations (POST /api/future)

onbVars == <<profiles, jobs, timestamps, run, enq, boot>>
callVars == <<calls, scheduled, now, sc, sw>>
vars == <<profiles, jobs, timestamps, run, enq, boot, calls, scheduled, now, sc, sw>>

\* ------------------------------------------------------------ profiles
\* rows: how many rows the table holds for the user
NoProfile ==
  [present |-> FALSE, rows |-> 0, setup_status |-> "new",
   eleven_voice_id |-> NULL, eleven_agent_id |-> NULL, phone_e164 |-> NULL]

\* a row as bootstrap inserts it: clerk_user_id + phone, the rest defaults
NewProfile(phone) ==
  [present |-> TRUE, rows |-> 1, setup_status |-> "new",
   eleven_voice_id |-> NULL, eleven_agent_id |-> NULL, phone_e164 |-> phone]

\* PATCH /profiles?clerk_user_id=eq.<userId>: the row's columns overwritten
\* by the body; a PATCH that matches no row changes nothing.
PatchProfile(P, userId, body) ==
  IF P[userId].present
  THEN [P EXCEPT ![userId] = body @@ @]
  ELSE P

\* updateProfileStatus never looks at the response: a non-2xx answer is
\* dropped, a rejected fetch propagates to the caller.
updateProfileStatus(P, userId, status, extraFields, outcome) ==
  IF outcome = "ok"
  THEN PatchProfile(P, userId, [setup_status |-> status] @@ extraFields)
  ELSE P

NoFields == [x \in {} |-> NULL]

\* ---------------------------------------------------- processOnboarding
\* a text column that is null, a text value that is null or undefined
NoText == "null"

\* extracted = null
NullReflection == [kind |-> "null"]

\* tsMeta = null: no timestampId in the body, the select answered non-2xx,
\* or no row
NoMeta == [kind |-> "null"]

\* tsMeta: the title and snapshot date of the timestamp row; prompt: the
\* lines of the prompt of the agent the run created
IdleRun ==
  [pc |-> "idle", user |-> "-", voiceId |-> NULL, agentId |-> NULL,
   tsMeta |-> NoMeta, extracted |-> NullReflection, prompt |-> <<>>,
   result |-> "-"]

\* the ids the provider returns are opaque: the handlers only store them,
\* return them and test them for null, so one non-null value stands for all
FreshId(r) == 1

\* the handler returns (or its exception leaves it): an error response
\* carries no ids and no extraction
Finish(rec, res) ==
  [IdleRun EXCEPT !.pc = "done", !.user = rec.user, !.result = res]

AlreadyReadyWrongStatus(p) ==
  /\ p.setup_status = "agent_created"
  /\ p.eleven_agent_id # NULL
  /\ p.eleven_voice_id # NULL

\* the idempotency test of the process route
AlreadyReady(p) ==
  /\ p.setup_status = "ready"
  /\ p.eleven_agent_id # NULL
  /\ p.eleven_voice_id # NULL

\* POST /api/onboarding/process up to the idempotency return
process_Load(r, u, validBody, o, tsMeta) ==
  /\ run[r].pc \in {"idle", "done"}
  /\ LET rec == [IdleRun EXCEPT !.user = u]
         p == profiles[u]
     IN run' = [run EXCEPT ![r] =
          IF ~validBody THEN Finish(rec, "missing_voiceSamplePath")
          ELSE IF o = "raise" THEN Finish(rec, "crashed")
          ELSE IF o = "nonok" THEN Finish(rec, "fetch_profile_failed")
          ELSE IF ~p.present THEN Finish(rec, "profile_not_found")
          ELSE IF AlreadyReady(p)
            THEN [Finish(rec, "already_ready")
                    EXCEPT !.voiceId = p.eleven_voice_id,
                           !.agentId = p.eleven_agent_id]
          ELSE [rec EXCEPT !.pc = "mark_uploaded", !.tsMeta = tsMeta]]
  /\ UNCHANGED <<profiles, jobs, timestamps, enq, boot, callVars>>

process_MarkUploaded_AsCreated(r, w) ==
  /\ run[r].pc = "mark_uploaded"
  /\ profiles' = updateProfileStatus(profiles, run[r].user, "voice_created",
                                     NoFields, w)
  /\ run' = [run EXCEPT ![r] =
       IF w = "raise" THEN Finish(@, "patch_rejected")
       ELSE [@ EXCEPT !.pc = "audio"]]
  /\ UNCHANGED <<jobs, timestamps, enq, boot, callVars>>

\* await updateProfileStatus(userId, "voice_uploaded")
process_MarkUploaded(r, w) ==
  /\ run[r].pc = "mark_uploaded"
  /\ profiles' = updateProfileStatus(profiles, run[r].user, "voice_uploaded",
                                     NoFields, w)
  /\ run' = [run EXCEPT ![r] =
       IF w = "raise" THEN Finish(@, "patch_rejected")
       ELSE [@ EXCEPT !.pc = "audio"]]
  /\ UNCHANGED <<jobs, timestamps, enq, boot, callVars>>

\* the branch `updateProfileStatus(userId, "error"); return 500` of a
\* fatal step
FailRun(r, failure) ==
  \E w \in Outcomes :
    /\ profiles' = updateProfileStatus(profiles, run[r].user, "error", NoFields, w)
    /\ run' = [run EXCEPT ![r] =
         Finish(@, IF w = "raise" THEN "patch_rejected" ELSE failure)]

\* a rejected fetch (of a storage or provider request: "crashed"; of a
\* status write: "patch_rejected"): nothing catches it, the handler ends
\* there
CrashRun(r) ==
  /\ profiles' = profiles
  /\ run' = [run EXCEPT ![r] = Finish(@, "crashed")]

\* a status write of the pipeline that is followed by another step
MarkAndGo(r, status, extraFields, rec) ==
  \E w \in Outcomes :
    /\ profiles' = updateProfileStatus(profiles, run[r].user, status,
                                       extraFields, w)
    /\ run' = [run EXCEPT ![r] =
         IF w = "raise" THEN Finish(@, "patch_rejected") ELSE rec]

\* what extractReflectionWithOpenAI returns for the recording: fields the
\* speaker mentioned and fields left empty or null
TheReflection ==
  [kind |-> "reflection", goals |-> <<"g">>, fears |-> <<>>, situation |-> "s",
   currentWork |-> NoText, otherNotes |-> "n"]

\* the title and snapshot date of the user's timestamp row
TheMeta == [kind |-> "row", title |-> "t", snapshot_date |-> "d"]

\* the `extracted` of a run: null unless transcription and extraction
\* both succeeded
Reflection(extracted, reflection) ==
  IF extracted THEN reflection ELSE NullReflection

\* Array.prototype.filter(Boolean) on texts
filterBoolean(texts) == SelectSeq(texts, LAMBDA t : t # "" /\ t # NoText)

\* Array.prototype.join
RECURSIVE join(_, _)
join(texts, sep) ==
  IF texts = <<>> THEN ""
  ELSE IF Len(texts) = 1 THEN texts[1]
  ELSE texts[1] \o sep \o join(Tail(texts), sep)

\* the lines of the prompt in their order (the code joins them with
\* "\n"); the rules and the style lines are shortened
buildSystemPrompt(title, snapshotDate, reflection) ==
  LET given == reflection # NullReflection
      goals == IF given THEN join(filterBoolean(reflection.goals), "; ") ELSE ""
      fears == IF given THEN join(filterBoolean(reflection.fears), "; ") ELSE ""
      situation == IF given /\ reflection.situation # NoText
                   THEN reflection.situation ELSE ""
      currentWork == IF given /\ reflection.currentWork # NoText
                     THEN reflection.currentWork ELSE ""
      otherNotes == IF given /\ reflection.otherNotes # NoText
                    THEN reflection.otherNotes ELSE ""
  IN filterBoolean(
       <<"You are the user, speaking across time.",
         "",
         "time_mode is: {{time_mode}}",
         "Rules:",
         "- If time_mode = \"past\": ...",
         "- If time_mode = \"future\": ...",
         "",
         "Stay natural and personal. ...",
         "Ask 1-2 real questions and give 1-3 small, realistic next steps.",
         "",
         "Snapshot (ground truth - do not invent facts beyond this):",
         "You are the user's "
           \o (IF title # NoText /\ title # ""
               THEN "\"" \o title \o "\"" ELSE "self")
           \o " at "
           \o (IF snapshotDate # NoText THEN snapshotDate ELSE "this date")
           \o ".",
         IF goals # "" THEN "Goals: " \o goals ELSE "",
         IF fears # "" THEN "Fears: " \o fears ELSE "",
         IF situation # "" THEN "Situation: " \o situation ELSE "",
         IF currentWork # "" THEN "Current work/school: " \o currentWork ELSE "",
         IF otherNotes # "" THEN "Other notes: " \o otherNotes ELSE "">>)

\* the try block of step 3: transcribeWithElevenLabs and
\* extractReflectionWithOpenAI throw on a non-2xx answer as on a rejected
\* request; the catch block sets extracted = null
Extracted(transcribe, extract) == transcribe = "ok" /\ extract = "ok"

\* steps 1-3 and the first write of step 4: signed URL, download,
\* transcription + extraction (inside try/catch: any failure, thrown or
\* non-2xx, leaves extracted = null), then setup_status = voice_created
process_Audio(r, sign, download, reflection) ==
  /\ run[r].pc = "audio"
  /\ IF sign = "raise" THEN CrashRun(r)
     ELSE IF sign = "nonok" THEN FailRun(r, "signed_url_failed")
     ELSE IF download = "raise" THEN CrashRun(r)
     ELSE IF download = "nonok" THEN FailRun(r, "download_failed")
     ELSE \E transcribe \in Outcomes, extract \in Outcomes :
            MarkAndGo(r, "voice_created", NoFields,
                      [run[r] EXCEPT !.pc = "voice",
                                     !.extracted =
                                       Reflection(Extracted(transcribe, extract),
                                                  reflection)])
  /\ UNCHANGED <<jobs, timestamps, enq, boot, callVars>>

\* step 4: voices/add (non-2xx, or 2xx without voice_id, is a failure),
\* then setup_status = agent_created together with the voice id
process_Voice(r, o, hasId) ==
  /\ run[r].pc = "voice"
  /\ IF o = "raise" THEN CrashRun(r)
     ELSE IF o = "nonok" THEN FailRun(r, "voice_create_failed")
     ELSE IF ~hasId THEN FailRun(r, "no_voice_id")
     ELSE MarkAndGo(r, "agent_created", [eleven_voice_id |-> FreshId(r)],
                    [run[r] EXCEPT !.pc = "agent", !.voiceId = FreshId(r)])
  /\ UNCHANGED <<jobs, timestamps, enq, boot, callVars>>

\* step 5: agents/create with the prompt built after step 3, then
\* setup_status = ready together with the agent id, and the success
\* response
process_Agent(r, o, hasId) ==
  /\ run[r].pc = "agent"
  /\ IF o = "raise" THEN CrashRun(r)
     ELSE IF o = "nonok" THEN FailRun(r, "agent_create_failed")
     ELSE IF ~hasId THEN FailRun(r, "no_agent_id")
     ELSE MarkAndGo(r, "ready", [eleven_agent_id |-> FreshId(r)],
                    [run[r] EXCEPT !.pc = "done", !.result = "ok",
                                   !.agentId = FreshId(r),
                                   !.prompt = buildSystemPrompt(
                                     IF run[r].tsMeta = NoMeta THEN NoText
                                     ELSE run[r].tsMeta.title,
                                     IF run[r].tsMeta = NoMeta THEN NoText
                                     ELSE run[r].tsMeta.snapshot_date,
                                     run[r].extracted)])
  /\ UNCHANGED <<jobs, timestamps, enq, boot, callVars>>

\* -------------------------------------------------------------- enqueue
InProgressOrReady == {"voice_uploaded", "voice_created", "agent_created", "ready"}

\* POST /api/onboarding/enqueue up to its last request: profile fetch and
\* validation, existing-job lookup, then the timestamp, voice-sample and
\* job inserts.  The handler runs inside try/catch: a rejected fetch is a
\* 500 response.  `found` is whether the lookup answered with a job,
\* `inserted` how many of the timestamp and job inserts succeeded.
enqueue_Begin(u, accepted, found, inserted) ==
  /\ enq[u] = "idle"
  /\ LET p == profiles[u]
         rejected == \/ ~accepted
                     \/ ~p.present
                     \/ p.phone_e164 = NULL
         existing == /\ p.setup_status \in InProgressOrReady
                     /\ \/ found /\ jobs[u] > 0
                        \/ p.setup_status = "ready"
     IN IF rejected \/ existing
        THEN UNCHANGED <<timestamps, jobs, enq>>
        ELSE /\ timestamps[u] < MaxJobs
             /\ timestamps' = IF inserted >= 1 THEN [timestamps EXCEPT ![u] = @ + 1]
                              ELSE timestamps
             /\ jobs' = IF inserted = 2 THEN [jobs EXCEPT ![u] = @ + 1] ELSE jobs
             /\ enq' = IF inserted = 2 THEN [enq EXCEPT ![u] = "patch_profile"]
                       ELSE enq
  /\ UNCHANGED <<profiles, run, boot, callVars>>

\* the closing PATCH setup_status = voice_uploaded (response not looked
\* at), then the success response
enqueue_PatchProfile(u, o) ==
  /\ enq[u] = "patch_profile"
  /\ profiles' = IF o = "ok"
                 THEN PatchProfile(profiles, u, [setup_status |-> "voice_uploaded"])
                 ELSE profiles
  /\ enq' = [enq EXCEPT ![u] = "idle"]
  /\ UNCHANGED <<jobs, timestamps, run, boot, callVars>>

\* the row enqueue inserts into onboarding_jobs; no handler writes to the
\* table after the insert, so every row is as it was inserted
QueuedJob == [status |-> "queued", error_message |-> NULL]

\* the onboarding_jobs rows of a user, oldest first
onboarding_jobs(J, u) == [n \in 1..J[u] |-> QueuedJob]

\* GET /api/onboarding/status?job_id=latest: the newest job of the user
\* with the profile's status beside it
status_GET(J, P, u) ==
  IF J[u] = 0 THEN [success |-> FALSE, status |-> "-", errorMessage |-> NULL]
  ELSE LET job == onboarding_jobs(J, u)[J[u]]
       IN [success |-> TRUE, status |-> job.status,
           errorMessage |-> job.error_message]

\* -------------------------------------------------------------- bootstrap
\* the bootstrap invocations; two of them may overlap
Boots == {"b1", "b2"}

\* user?.primaryPhoneNumber?.phoneNumber ?? null
ClerkPhones == {NULL, 1, 2}

IdleBoot == [pc |-> "idle", user |-> "-", phoneE164 |-> NULL, result |-> "-"]

\* the handler answers, with success or with a 500
EndBoot(rec, res) == [rec EXCEPT !.pc = "done", !.result = res]

\* GET /api/bootstrap up to the answer of the profile select
bootstrap_Fetch(b, u, phoneE164, o) ==
  /\ boot[b].pc = "idle"
  /\ LET rec == [IdleBoot EXCEPT !.user = u, !.phoneE164 = phoneE164]
     IN boot' = [boot EXCEPT ![b] =
          IF o = "raise" THEN EndBoot(rec, "exception")
          ELSE IF o = "nonok" THEN EndBoot(rec, "supabase_error")
          ELSE IF ~profiles[u].present THEN [rec EXCEPT !.pc = "create"]
          ELSE IF profiles[u].phone_e164 # phoneE164 THEN [rec EXCEPT !.pc = "patch"]
          ELSE EndBoot(rec, "ok")]
  /\ UNCHANGED <<profiles, jobs, timestamps, run, enq, callVars>>

\* POST /profiles {clerk_user_id, phone_e164}: the user id is the table's
\* key, a second row for it is rejected
insert_profiles(P, u, phone) ==
  IF P[u].present THEN P ELSE [P EXCEPT ![u] = NewProfile(phone)]

\* the insert of the first-time branch
bootstrap_Create(b, o) ==
  /\ boot[b].pc = "create"
  /\ LET inserted == insert_profiles(profiles, boot[b].user, boot[b].phoneE164)
     IN /\ profiles' = IF o = "ok" THEN inserted ELSE profiles
        /\ boot' = [boot EXCEPT ![b] =
             IF o = "raise" THEN EndBoot(@, "exception")
             ELSE IF o = "nonok" \/ inserted = profiles THEN EndBoot(@, "create_error")
             ELSE EndBoot(@, "ok")]
  /\ UNCHANGED <<jobs, timestamps, run, enq, callVars>>

PhonePatchResetsStatus(phone) == [phone_e164 |-> phone, setup_status |-> "new"]

\* the body of the PATCH that follows a changed phone number (updated_at
\* is not modelled)
PhonePatch(phone) == [phone_e164 |-> phone]

\* the PATCH of the existing-profile branch: the response is not looked at
bootstrap_Patch(b, o) ==
  /\ boot[b].pc = "patch"
  /\ profiles' = IF o = "ok"
                 THEN PatchProfile(profiles, boot[b].user, PhonePatch(boot[b].phoneE164))
                 ELSE profiles
  /\ boot' = [boot EXCEPT ![b] =
       EndBoot(@, IF o = "raise" THEN "exception" ELSE "ok")]
  /\ UNCHANGED <<jobs, timestamps, run, enq, callVars>>

\* ================================================================ calls
\* ---------------------------------------------------------------- bounds
\* rows the calls table may hold
MaxCalls == 2
\* rows the scheduled_calls table may hold
MaxScheduled == 1
\* ticks of the clock
MaxTicks == 1

\* the startCall invocations and the runDueCalls invocations; the
\* invocations of a handler may overlap
Starts == {"s1", "s2"}
Sweeps == {"w1", "w2"}

\* 12 * 60 * 1000 ms; the clock counts minutes
STALE_MS == 12
\* deployment setting, "20" when the variable is unset
MAX_CONCURRENT_CALLS == 2

Min(a, b) == IF a <= b THEN a ELSE b
Max(a, b) == IF a >= b THEN a ELSE b

CallStatus == {"queued", "dialing", "in_progress", "completed", "failed"}
ActiveStatuses == {"queued", "dialing", "in_progress"}
ScheduledStatus == {"pending", "executing", "executed", "failed", "canceled"}

\* a profile that finished onboarding
ReadyProfile ==
  [present |-> TRUE, rows |-> 1, setup_status |-> "ready",
   eleven_voice_id |-> 1, eleven_agent_id |-> 1, phone_e164 |-> 1]

\* POST /calls: the row both dispatchers insert; created_at is the store's
\* default, and so is the empty scheduled_call_id of a manual call
NewCall(userId, origin) ==
  [clerk_user_id |-> userId, origin |-> origin, status |-> "queued",
   scheduled_call_id |-> NULL,
   eleven_conversation_id |-> NULL, created_at |-> now, started_at |-> NULL,
   failure_reason |-> NoText]

\* PATCH /calls?id=eq.<id>: no filter but the id
PatchCallRow(C, id, body) == [C EXCEPT ![id] = body @@ @]

\* PATCH /scheduled_calls?id=eq.<id>: no filter but the id
PatchScheduledRow(S, id, body) == [S EXCEPT ![id] = body @@ @]

\* a PATCH whose response is not looked at: applied when the store accepts it
Written(T, T2, o) == IF o = "ok" THEN T2 ELSE T

ActiveIdsQueuedOnly(C, userId) ==
  {k \in DOMAIN C : C[k].clerk_user_id = userId /\ C[k].status = "queued"}

\* ids of the calls that block a user
ActiveIds(C, userId) ==
  {k \in DOMAIN C : C[k].clerk_user_id = userId /\ C[k].status \in ActiveStatuses}

\* ids in descending order: newest row first (order=created_at.desc)
RECURSIVE DescSeq(_)
DescSeq(S) ==
  IF S = {} THEN <<>>
  ELSE LET m == CHOOSE x \in S : \A y \in S : y <= x
       IN <<m>> \o DescSeq(S \ {m})

\* ------------------------------------------------------------ runDueCalls
\* claimed: jobs.length; processed: the counter of the loop; reason: the
\* message of the error the job's try block threw; time_mode: the dynamic
\* variable of the outbound-call request made for the job in hand
IdleSweep ==
  [pc |-> "idle", nowIso |-> NULL, limit |-> 0, due |-> <<>>, jobs |-> <<>>,
   callId |-> NULL, reason |-> NoText, time_mode |-> NoText, claimed |-> 0,
   processed |-> 0, result |-> "-"]

\* the handler returns, or an exception leaves it
EndSweep(res) == [IdleSweep EXCEPT !.pc = "done", !.result = res]

\* body.limit as the cron trigger sends it: 0 stands for an absent limit
RequestedLimits == {0, 1}

\* Math.max(1, Math.min(Number(body?.limit || 5), 25))
requestedLimit(l) == Max(1, Min(IF l = 0 THEN 5 ELSE l, 25))

\* countActiveCalls: rows of every user, limit 200; 0 when the request is
\* answered non-2xx
countActiveCalls(o) ==
  IF o = "ok"
  THEN Min(200, Cardinality({k \in DOMAIN calls : calls[k].status \in ActiveStatuses}))
  ELSE 0

\* POST /api/future up to the capacity decision
sweep_Begin(w, l, o) ==
  /\ sw[w].pc = "idle"
  /\ LET active == countActiveCalls(o)
         available == Max(0, MAX_CONCURRENT_CALLS - active)
         limit == Min(requestedLimit(l), available)
     IN sw' = [sw EXCEPT ![w] =
          IF o = "raise" THEN EndSweep("crashed")
          ELSE IF limit <= 0 THEN EndSweep("busy")
          ELSE [IdleSweep EXCEPT !.pc = "claim", !.nowIso = now, !.limit = limit]]
  /\ UNCHANGED <<onbVars, calls, scheduled, now, sc>>

DueIdsIgnoringTime(S, t) == {k \in DOMAIN S : S[k].status = "pending"}

\* rows that are due at instant t
DueIds(S, t) ==
  {k \in DOMAIN S : S[k].status = "pending" /\ S[k].scheduled_for <= t}

\* the first n entries of f as a sequence
RECURSIVE Prefix(_, _)
Prefix(f, n) == IF n = 0 THEN <<>> ELSE Append(Prefix(f, n - 1), f[n])

DueSelectionsUnordered(S, t, limit) ==
  LET due == DueIds(S, t)
      n == Min(limit, Cardinality(due))
  IN {Prefix(s, n) : s \in {f \in [1..n -> due] :
                              \A i, j \in 1..n : i < j => f[i] # f[j]}}

\* status=eq.pending&scheduled_for=lte.<t>&order=scheduled_for.asc&limit=<n>:
\* every answer the store may give, as the sequence of ids (rows with
\* equal scheduled_for come in any order)
DueSelections(S, t, limit) ==
  LET due == DueIds(S, t)
      n == Min(limit, Cardinality(due))
      sorted == {s \in [1..n -> due] :
        /\ \A i, j \in 1..n : i < j =>
             /\ s[i] # s[j]
             /\ S[s[i]].scheduled_for <= S[s[j]].scheduled_for
        /\ \A i \in 1..n : \A k \in due \ {s[j] : j \in 1..n} :
             S[s[i]].scheduled_for <= S[k].scheduled_for}
  IN {Prefix(s, n) : s \in sorted}

\* the rows of a selection with the columns the loop reads
RECURSIVE DueRows(_, _)
DueRows(S, s) ==
  IF s = <<>> THEN <<>>
  ELSE <<[id |-> Head(s), attempt_count |-> S[Head(s)].attempt_count]>>
         \o DueRows(S, Tail(s))

\* rpc/claim_due_scheduled_calls {p_limit}: in one store transaction, up to
\* p_limit due pending rows become executing and are returned
claim_due_scheduled_calls(S, ids) ==
  [k \in DOMAIN S |->
     IF k \in ids THEN [status |-> "executing"] @@ S[k] ELSE S[k]]

\* where the sweep goes once it holds its jobs, and after each job (limit
\* is not read again)
NextJob(rec, rest) ==
  IF rest = <<>>
  THEN [EndSweep("ok") EXCEPT !.claimed = rec.claimed, !.processed = rec.processed]
  ELSE [rec EXCEPT !.pc = "insert", !.jobs = rest, !.due = <<>>, !.callId = NULL,
                   !.reason = NoText, !.time_mode = NoText, !.limit = 0]

\* claimDueScheduled up to the fallback select: the RPC, and when it is
\* answered non-2xx the select of the due rows.  What claimDueScheduled
\* throws is caught by POST and answered 500 with the error's message:
\* "fetch_rejected" for a rejected fetch, "fetch_due_failed" for the
\* select answered non-2xx.
sweep_Claim(w, rpc, select) ==
  /\ sw[w].pc = "claim"
  /\ IF rpc = "raise" THEN
       /\ sw' = [sw EXCEPT ![w] = EndSweep("fetch_rejected")]
       /\ scheduled' = scheduled
     ELSE IF rpc = "ok" THEN
       \E s \in DueSelections(scheduled, now, sw[w].limit) :
         /\ scheduled' = claim_due_scheduled_calls(scheduled, {s[i] : i \in DOMAIN s})
         /\ sw' = [sw EXCEPT ![w] = NextJob([sw[w] EXCEPT !.claimed = Len(s)], s)]
     ELSE IF select # "ok" THEN
       /\ sw' = [sw EXCEPT ![w] = EndSweep(IF select = "raise" THEN "fetch_rejected"
                                           ELSE "fetch_due_failed")]
       /\ scheduled' = scheduled
     ELSE
       \E s \in DueSelections(scheduled, now, sw[w].limit) :
         /\ scheduled' = scheduled
         /\ sw' = [sw EXCEPT ![w] =
              IF s = <<>> THEN EndSweep("ok")
              ELSE [@ EXCEPT !.pc = "patch", !.due = DueRows(scheduled, s)]]
  /\ UNCHANGED <<onbVars, calls, now, sc>>

ClaimGuardMissing(row) == TRUE

\* the filter status=eq.pending of the claiming PATCH
ClaimGuard(row) == row.status = "pending"

\* the fallback's loop body: the conditional PATCH of one selected row
sweep_ClaimRow(w, o) ==
  /\ sw[w].pc = "patch"
  /\ LET row == Head(sw[w].due)
         updated == o = "ok" /\ ClaimGuard(scheduled[row.id])
         claimed == IF updated THEN Append(sw[w].jobs, row.id) ELSE sw[w].jobs
     IN /\ scheduled' =
             IF updated
             THEN PatchScheduledRow(scheduled, row.id,
                    [status |-> "executing",
                     attempt_count |-> row.attempt_count + 1])
             ELSE scheduled
        /\ sw' = [sw EXCEPT ![w] =
             IF o = "raise" THEN EndSweep("fetch_rejected")
             ELSE IF Tail(sw[w].due) = <<>>
               THEN NextJob([sw[w] EXCEPT !.claimed = Len(claimed)], claimed)
             ELSE [sw[w] EXCEPT !.due = Tail(sw[w].due), !.jobs = claimed]]
  /\ UNCHANGED <<onbVars, calls, now, sc>>

\* the checks of the loaded profile
ProfileUsable(p) ==
  /\ p.present
  /\ p.setup_status = "ready"
  /\ p.eleven_agent_id # NULL
  /\ p.phone_e164 # NULL

\* the error a profile that fails the checks raises; a select answered
\* non-2xx reads as no profile
ProfileError(found, p) ==
  IF ~found \/ ~p.present THEN "profile_not_found"
  ELSE IF p.setup_status # "ready" THEN "profile_not_ready"
  ELSE IF p.eleven_agent_id = NULL THEN "missing_agent_id"
  ELSE "missing_phone"

\* a job's try block up to the call row's insert; "job_error" stands for
\* the messages of the errors that are not raised by the profile checks
sweep_Insert(w, prof, ins) ==
  /\ sw[w].pc = "insert"
  /\ LET userId == scheduled[Head(sw[w].jobs)].clerk_user_id
         p == profiles[userId]
     IN IF prof = "ok" /\ ProfileUsable(p) /\ ins = "ok"
        THEN /\ Len(calls) < MaxCalls
             /\ calls' = Append(calls,
                  [NewCall(userId, "scheduled") EXCEPT
                     !.scheduled_call_id = Head(sw[w].jobs)])
             /\ sw' = [sw EXCEPT ![w] = [@ EXCEPT !.pc = "dial",
                                                  !.callId = Len(calls) + 1]]
        ELSE /\ calls' = calls
             /\ sw' = [sw EXCEPT ![w] = [@ EXCEPT !.pc = "fail_scheduled",
                  !.reason = IF prof = "raise" THEN "job_error"
                             ELSE IF prof = "nonok" \/ ~ProfileUsable(p)
                               THEN ProfileError(prof = "ok", p)
                             ELSE "job_error"]]
  /\ UNCHANGED <<onbVars, scheduled, now, sc>>

ScheduledDialVariablesFuture == [time_mode |-> "future"]

\* dynamic_variables of the outbound-call request of runDueCalls
\* (first_message is not modelled)
ScheduledDialVariables == [time_mode |-> "past"]

\* the outbound-call request and patchCall(status: dialing)
sweep_Dial(w, el, hasConvo, patch) ==
  /\ sw[w].pc = "dial"
  /\ IF el = "ok"
     THEN /\ calls' = Written(calls,
                 PatchCallRow(calls, sw[w].callId,
                   [status |-> "dialing", started_at |-> sw[w].nowIso,
                    eleven_conversation_id |-> IF hasConvo THEN 1 ELSE NULL]),
                 patch)
          /\ sw' = [sw EXCEPT ![w] = [@ EXCEPT !.pc =
                      IF patch = "raise" THEN "fail_scheduled" ELSE "mark_executed",
                    !.reason = IF patch = "raise" THEN "job_error" ELSE NoText,
                    !.time_mode = ScheduledDialVariables.time_mode]]
     ELSE /\ calls' = calls
          /\ sw' = [sw EXCEPT ![w] = [@ EXCEPT !.pc = "fail_scheduled",
                                               !.reason = "job_error",
                                               !.time_mode =
                                                 ScheduledDialVariables.time_mode]]
  /\ UNCHANGED <<onbVars, scheduled, now, sc>>

\* markScheduled(status: executed) and processed++, the end of the try
\* block
sweep_MarkExecuted(w, o) ==
  /\ sw[w].pc = "mark_executed"
  /\ scheduled' = Written(scheduled,
        PatchScheduledRow(scheduled, Head(sw[w].jobs), [status |-> "executed"]), o)
  /\ sw' = [sw EXCEPT ![w] =
       IF o = "raise" THEN [@ EXCEPT !.pc = "fail_scheduled", !.reason = "job_error"]
       ELSE NextJob([sw[w] EXCEPT !.processed = sw[w].processed + 1],
                    Tail(sw[w].jobs))]
  /\ UNCHANGED <<onbVars, calls, now, sc>>

\* the catch block: markScheduled(status: failed); the trace id in front
\* of the reason is not modelled
sweep_FailScheduled(w, o) ==
  /\ sw[w].pc = "fail_scheduled"
  /\ scheduled' = Written(scheduled,
        PatchScheduledRow(scheduled, Head(sw[w].jobs),
          [status |-> "failed", failure_reason |-> sw[w].reason]), o)
  /\ sw' = [sw EXCEPT ![w] =
       IF o = "raise" THEN EndSweep("crashed")
       ELSE IF @.callId # NULL THEN [@ EXCEPT !.pc = "fail_call"]
       ELSE NextJob(@, Tail(@.jobs))]
  /\ UNCHANGED <<onbVars, calls, now, sc>>

\* the catch block: patchCall(status: failed) when the call row exists
sweep_FailCall(w, o) ==
  /\ sw[w].pc = "fail_call"
  /\ calls' = Written(calls,
        PatchCallRow(calls, sw[w].callId,
          [status |-> "failed", failure_reason |-> sw[w].reason]), o)
  /\ sw' = [sw EXCEPT ![w] =
       IF o = "raise" THEN EndSweep("crashed")
       ELSE NextJob(@, Tail(@.jobs))]
  /\ UNCHANGED <<onbVars, scheduled, now, sc>>

\* the trigger calls POST /api/future again: every invocation starts with
\* nothing of the one before
sweep_Again(w) ==
  /\ sw[w].pc = "done"
  /\ sw' = [sw EXCEPT ![w] = IdleSweep]
  /\ UNCHANGED <<onbVars, calls, scheduled, now, sc>>

\* -------------------------------------------------------------- startCall
\* reconciled: the invocation is past a reconciliation pass that ran to
\* its end
\* no conversation record at hand
NoAnswer == [kind |-> "-"]

\* details: what the provider answered for the snapshot row in hand;
\* time_mode: the dynamic variable of the outbound-call request the
\* invocation made
IdleStart ==
  [pc |-> "idle", user |-> "-", now |-> NULL, active |-> <<>>,
   details |-> NoAnswer, callId |-> NULL, reconciled |-> FALSE,
   time_mode |-> NoText, result |-> "-"]

\* the handler returns, or an exception leaves it
EndStart(rec, res) ==
  [IdleStart EXCEPT !.pc = "done", !.user = rec.user,
                    !.time_mode = rec.time_mode, !.result = res]

ActiveSnapshotAnyUser(C, userId) ==
  LET ids == DescSeq({k \in DOMAIN C : C[k].status \in ActiveStatuses})
      RECURSIVE Rows(_)
      Rows(s) ==
        IF s = <<>> THEN <<>>
        ELSE <<[id |-> Head(s),
                eleven_conversation_id |-> C[Head(s)].eleven_conversation_id,
                startedIso |-> IF C[Head(s)].started_at # NULL
                               THEN C[Head(s)].started_at
                               ELSE C[Head(s)].created_at]>> \o Rows(Tail(s))
  IN Rows(SubSeq(ids, 1, Min(3, Len(ids))))

\* the select of reconcileStuckCalls: the user's active calls, newest
\* first, limit 3, with the columns the loop reads
ActiveSnapshot(C, userId) ==
  LET ids == DescSeq(ActiveIds(C, userId))
      RECURSIVE Rows(_)
      Rows(s) ==
        IF s = <<>> THEN <<>>
        ELSE <<[id |-> Head(s),
                eleven_conversation_id |-> C[Head(s)].eleven_conversation_id,
                startedIso |-> IF C[Head(s)].started_at # NULL
                               THEN C[Head(s)].started_at
                               ELSE C[Head(s)].created_at]>> \o Rows(Tail(s))
  IN Rows(SubSeq(ids, 1, Min(3, Len(ids))))

\* POST /api/calls up to the select of reconcileStuckCalls and its
\* Date.now()
start_Begin(i, u, o) ==
  /\ sc[i].pc = "idle"
  /\ LET rec == [IdleStart EXCEPT !.user = u]
         active == ActiveSnapshot(calls, u)
     IN sc' = [sc EXCEPT ![i] =
          IF o = "raise" THEN EndStart(rec, "crashed")
          ELSE IF o = "nonok" THEN [rec EXCEPT !.pc = "check"]
          ELSE IF active = <<>>
            THEN [rec EXCEPT !.pc = "check", !.reconciled = TRUE]
          ELSE [rec EXCEPT !.pc = "reconcile", !.now = now, !.active = active]]
  /\ UNCHANGED <<onbVars, calls, scheduled, now, sw>>

\* a field the conversation record does not carry
Absent == -1

\* a conversation record (2xx answer) with the fields reconcileStuckCalls
\* reads
Conversation(duration, startUnix, endUnix, status) ==
  [kind |-> "details", call_duration_secs |-> duration,
   start_time_unix_secs |-> startUnix, end_time_unix_secs |-> endUnix,
   status |-> status]

\* a call still going on, calls with a duration, an end time or a closing
\* status, and the zero values of duration and end time.  The provider's
\* times are seconds: 105 lies before every call of the table, 1000 after
\* the stale ones.
ConversationRecords ==
  {Conversation(Absent, Absent, Absent, "in-progress"),
   Conversation(5, 100, Absent, "in-progress"),
   Conversation(0, 100, Absent, "in-progress"),
   Conversation(5, Absent, Absent, "in-progress"),
   Conversation(Absent, Absent, 105, ""),
   Conversation(Absent, Absent, 0, ""),
   Conversation(5, 100, 1000, ""),
   Conversation(0, Absent, 1000, ""),
   Conversation(Absent, Absent, Absent, "DONE")}

\* what the provider says about a conversation: 404, another non-2xx
\* answer, a rejected request, or a conversation record
ProviderAnswers ==
  {[kind |-> "404"], [kind |-> "error"], [kind |-> "raise"]}
    \cup ConversationRecords

\* (typeof x === "number" && x) || null
NumberOrNull(x) == IF x # Absent /\ x # 0 THEN x ELSE NULL

\* String.prototype.toLowerCase on the status texts above
toLowerCase(str) == CASE str = "DONE" -> "done" [] OTHER -> str

\* looksEnded
looksEnded(details, startedAt) ==
  LET callDuration == NumberOrNull(details.call_duration_secs)
      startUnix == NumberOrNull(details.start_time_unix_secs)
      endUnix == NumberOrNull(details.end_time_unix_secs)
      statusText == toLowerCase(details.status)
  IN \/ callDuration # NULL /\ (startUnix # NULL \/ startedAt # NULL)
     \/ endUnix # NULL
     \/ statusText \in {"completed", "ended", "done", "finished"}

isStaleAtThreshold(c, t) ==
  IF c.startedIso # NULL THEN t - c.startedIso >= STALE_MS ELSE TRUE

\* isStale: startedAt ? now - startedAt > STALE_MS : true
isStale(c, t) == IF c.startedIso # NULL THEN t - c.startedIso > STALE_MS ELSE TRUE

\* the PATCH bodies of reconcileStuckCalls
NoWrite == [status |-> "-"]
ForceFailedNoReason(reason) == [status |-> "failed", failure_reason |-> NoText]

ForceFailed(reason) == [status |-> "failed", failure_reason |-> reason]

\* new Date(iso).getTime(): the clock counts minutes, getTime milliseconds
getTimeMs(iso) == iso * 60000

\* the PATCH body of the looksEnded branch: ended_at (here in ms, as
\* toISOString renders it) and duration_seconds
Completed(details, startedIso, stale, t) ==
  LET callDuration == NumberOrNull(details.call_duration_secs)
      startUnix == NumberOrNull(details.start_time_unix_secs)
      endUnix == NumberOrNull(details.end_time_unix_secs)
      startedAt == IF startedIso # NULL THEN getTimeMs(startedIso) ELSE NULL
      endedAtIso ==
        IF endUnix # NULL THEN endUnix * 1000
        ELSE IF startUnix # NULL /\ callDuration # NULL
          THEN (startUnix + callDuration) * 1000
        ELSE IF startedAt # NULL /\ callDuration # NULL
          THEN startedAt + callDuration * 1000
        ELSE IF stale THEN getTimeMs(t)
        ELSE NULL
      durationSecs ==
        IF callDuration # NULL THEN Max(0, callDuration)
        ELSE IF startedAt # NULL /\ endedAtIso # NULL
          THEN Max(0, (endedAtIso - startedAt) \div 1000)
        ELSE NULL
  IN [status |-> "completed", ended_at |-> endedAtIso,
      duration_seconds |-> durationSecs, failure_reason |-> NoText]

ReconciledForcingNoId(c, answer, t) ==
  IF c.eleven_conversation_id = NULL
  THEN ForceFailed("stale_no_conversation_id")
  ELSE NoWrite

\* the body reconcileStuckCalls writes for a snapshot row, NoWrite for none
Reconciled(c, answer, t) ==
  IF c.eleven_conversation_id = NULL
  THEN IF isStale(c, t) THEN ForceFailed("stale_no_conversation_id") ELSE NoWrite
  ELSE IF answer.kind = "404"
  THEN IF isStale(c, t) THEN ForceFailed("stale_conversation_not_found") ELSE NoWrite
  ELSE IF answer.kind = "error"
  THEN IF isStale(c, t) THEN ForceFailed("stale_eleven_error") ELSE NoWrite
  ELSE IF looksEnded(answer, c.startedIso)
  THEN Completed(answer, c.startedIso, isStale(c, t), t)
  ELSE IF isStale(c, t) THEN ForceFailed("stale_unknown_state") ELSE NoWrite

\* the loop body of reconcileStuckCalls up to the provider's answer, for a
\* row that has a conversation id
start_Ask(i, answer) ==
  /\ sc[i].pc = "reconcile"
  /\ Head(sc[i].active).eleven_conversation_id # NULL
  /\ sc[i].details = NoAnswer
  /\ sc' = [sc EXCEPT ![i] =
       IF answer.kind = "raise" THEN EndStart(@, "crashed")
       ELSE [@ EXCEPT !.details = answer]]
  /\ UNCHANGED <<onbVars, calls, scheduled, now, sw>>

\* the rest of the loop body: the PATCH (by id only) the row's branch
\* makes, if any, and on to the next row
start_Reconcile(i, patch) ==
  /\ sc[i].pc = "reconcile"
  /\ LET c == Head(sc[i].active)
         body == Reconciled(c, sc[i].details, sc[i].now)
         crashed == body # NoWrite /\ patch = "raise"
     IN /\ c.eleven_conversation_id = NULL \/ sc[i].details # NoAnswer
        /\ calls' = IF crashed \/ body = NoWrite THEN calls
                    ELSE Written(calls, PatchCallRow(calls, c.id, body), patch)
        /\ sc' = [sc EXCEPT ![i] =
             IF crashed THEN EndStart(@, "crashed")
             ELSE IF Tail(sc[i].active) = <<>>
               THEN [sc[i] EXCEPT !.pc = "check", !.active = <<>>, !.now = NULL,
                                  !.details = NoAnswer, !.reconciled = TRUE]
             ELSE [sc[i] EXCEPT !.active = Tail(sc[i].active),
                                !.details = NoAnswer]]
  /\ UNCHANGED <<onbVars, scheduled, now, sw>>

NotReadyStatusOnly(p) == p.setup_status # "ready"

\* profile.setup_status !== "ready" || !agentId
NotReady(p) == p.setup_status # "ready" \/ p.eleven_agent_id = NULL

\* steps 1-3: profile, latest timestamp, active-call check
start_Check(i, prof, ts, act) ==
  /\ sc[i].pc = "check"
  /\ LET u == sc[i].user
         p == profiles[u]
     IN sc' = [sc EXCEPT ![i] =
          IF prof = "raise" THEN EndStart(@, "crashed")
          ELSE IF prof = "nonok" THEN EndStart(@, "fetch_profile_failed")
          ELSE IF ~p.present THEN EndStart(@, "profile_not_found")
          ELSE IF NotReady(p) THEN EndStart(@, "not_ready")
          ELSE IF p.phone_e164 = NULL THEN EndStart(@, "missing_phone")
          ELSE IF ts = "raise" THEN EndStart(@, "crashed")
          ELSE IF ts = "nonok" THEN EndStart(@, "fetch_timestamp_failed")
          ELSE IF timestamps[u] = 0 THEN EndStart(@, "no_timestamp")
          ELSE IF act = "raise" THEN EndStart(@, "crashed")
          ELSE IF act = "nonok" THEN EndStart(@, "active_check_failed")
          ELSE IF ActiveIds(calls, u) # {} THEN EndStart(@, "call_in_progress")
          ELSE [@ EXCEPT !.pc = "insert"]]
  /\ UNCHANGED <<onbVars, calls, scheduled, now, sw>>

\* step 4: the queued call row
start_Insert(i, o) ==
  /\ sc[i].pc = "insert"
  /\ IF o = "ok"
     THEN /\ Len(calls) < MaxCalls
          /\ calls' = Append(calls, NewCall(sc[i].user, "manual"))
          /\ sc' = [sc EXCEPT ![i] = [@ EXCEPT !.pc = "dial",
                                               !.callId = Len(calls) + 1]]
     ELSE /\ calls' = calls
          /\ sc' = [sc EXCEPT ![i] =
               EndStart(@, IF o = "raise" THEN "crashed" ELSE "insert_failed")]
  /\ UNCHANGED <<onbVars, scheduled, now, sw>>

\* dynamic_variables of the outbound-call request of startCall
\* (first_message is not modelled)
ManualDialVariables == [time_mode |-> "future"]

\* step 5: the outbound-call request and the PATCH that follows it inside
\* the try block (failed on a non-2xx answer, dialing otherwise), or the
\* PATCH of the catch block when the request is rejected
start_Dial(i, el, hasConvo, patch) ==
  /\ sc[i].pc = "dial"
  /\ LET body == IF el = "ok"
                 THEN [status |-> "dialing", started_at |-> now,
                       eleven_conversation_id |-> IF hasConvo THEN 1 ELSE NULL]
                 ELSE [status |-> "failed", failure_reason |-> "eleven_failed"]
         rec == [sc[i] EXCEPT !.time_mode = ManualDialVariables.time_mode]
     IN /\ calls' = Written(calls, PatchCallRow(calls, sc[i].callId, body), patch)
        /\ sc' = [sc EXCEPT ![i] =
             IF patch = "raise"
             THEN IF el = "raise" THEN EndStart(rec, "crashed")
                  ELSE [rec EXCEPT !.pc = "catch"]
             ELSE EndStart(rec, IF el = "ok" THEN "ok"
                                ELSE IF el = "nonok" THEN "dial_failed"
                                ELSE "dial_crashed")]
  /\ UNCHANGED <<onbVars, scheduled, now, sw>>

\* the catch block after a PATCH of the try block was rejected
start_Catch(i, o) ==
  /\ sc[i].pc = "catch"
  /\ calls' = Written(calls,
        PatchCallRow(calls, sc[i].callId,
          [status |-> "failed", failure_reason |-> "exception"]), o)
  /\ sc' = [sc EXCEPT ![i] =
       EndStart(@, IF o = "raise" THEN "crashed" ELSE "dial_crashed")]
  /\ UNCHANGED <<onbVars, scheduled, now, sw>>

\* -------------------------------------------------- schedule and cancel
\* body.scheduledFor: an ISO instant, nothing, or a text new Date() cannot
\* parse
Instant(t) == [kind |-> "instant", at |-> t]
Missing == [kind |-> "missing"]
Unparsed == [kind |-> "text"]

\* the time value of an Invalid Date
NaN == -1

\* new Date(scheduledFor).getTime()
getTime(scheduledFor) == IF scheduledFor.kind = "instant" THEN scheduledFor.at ELSE NaN

\* a <= b on time values: false when either is NaN
DateLeq(a, b) == a # NaN /\ b # NaN /\ a <= b

\* the date validation of the schedule route: not (scheduledDate <= new Date())
ScheduleInFuture(scheduledFor, t) == ~DateLeq(getTime(scheduledFor), t)

\* what the store may put into the timestamp column for a body value it
\* accepts: the instant itself, or its own reading of a text
StoreReads(scheduledFor, times) ==
  IF scheduledFor.kind = "instant" THEN {scheduledFor.at} ELSE times

\* POST /api/calls/schedule: a request that passes the checks and whose
\* insert the store accepts adds a pending row holding scheduled_for as
\* the store read it; any other request changes nothing
schedule_POST(u, scheduledFor, stored) ==
  /\ Len(scheduled) < MaxScheduled
  /\ scheduledFor # Missing
  /\ ScheduleInFuture(scheduledFor, now)
  /\ timestamps[u] > 0
  /\ scheduled' = Append(scheduled,
       [clerk_user_id |-> u, status |-> "pending",
        scheduled_for |-> stored, attempt_count |-> 0])
  /\ UNCHANGED <<onbVars, calls, now, sc, sw>>

\* the rows the dashboard lists with a Cancel button
fetchScheduledCalls(S, u) ==
  {k \in DOMAIN S : /\ S[k].clerk_user_id = u
                    /\ S[k].status = "pending" \/ S[k].status = "executing"}

schedule_DELETE_AnyOwner(u, id) ==
  /\ id \in DOMAIN scheduled
  /\ scheduled' = PatchScheduledRow(scheduled, id, [status |-> "canceled"])
  /\ UNCHANGED <<onbVars, calls, now, sc, sw>>

\* DELETE /api/calls/schedule?id=<id>: a PATCH filtered by id and owner
\* only; a request the store does not accept changes nothing
schedule_DELETE(u, id) ==
  /\ id \in DOMAIN scheduled
  /\ scheduled[id].clerk_user_id = u
  /\ scheduled' = PatchScheduledRow(scheduled, id, [status |-> "canceled"])
  /\ UNCHANGED <<onbVars, calls, now, sc, sw>>

\* the instants the clock shows: a tick is longer than STALE_MS, so that a
\* call is either as old as the clock's last tick or stale
TickLength == STALE_MS + 1
ClockTimes == {1 + k * TickLength : k \in 0..MaxTicks}

\* what a user may ask for as scheduledFor: the clock's instants and the
\* one after the last
ScheduleTimes == {1 + k * TickLength : k \in 0..(MaxTicks + 1)}
ScheduleInstants == {Instant(t) : t \in ScheduleTimes}
ScheduleInputs == ScheduleInstants \cup {Missing, Unparsed}

\* time passes.  An invocation lasts at most maxDuration (60 s), a small
\* part of a tick: the clock moves between invocations.
Tick ==
  /\ now + TickLength \in ClockTimes
  /\ \A i \in Starts : sc[i].pc \in {"idle", "done"}
  /\ \A w \in Sweeps : sw[w].pc \in {"idle", "done"}
  /\ now' = now + TickLength
  /\ UNCHANGED <<onbVars, calls, scheduled, sc, sw>>

\* ------------------------------------------------- onboarding state machine
\* the user whose onboarding is exercised; the other users' rows stand by
OnbUsers == {"u1"}

InitialProfiles == {NoProfile, NewProfile(NULL), NewProfile(1)}

Init ==
  /\ profiles \in {P \in [Users -> InitialProfiles] :
                     \A u \in Users \ OnbUsers : P[u] = NewProfile(1)}
  /\ jobs = [u \in Users |-> 0]
  /\ timestamps = [u \in Users |-> 0]
  /\ run = [r \in Runs |-> IdleRun]
  /\ enq = [u \in Users |-> "idle"]
  /\ boot = [b \in Boots |-> IdleBoot]
  /\ calls = <<>>
  /\ scheduled = <<>>
  /\ now = 1
  /\ sc = [i \in Starts |-> IdleStart]
  /\ sw = [w \in Sweeps |-> IdleSweep]

Next ==
  \/ \E r \in Runs, u \in OnbUsers, b \in BOOLEAN, o \in Outcomes :
       process_Load(r, u, b, o, TheMeta)
  \/ \E r \in Runs, w \in Outcomes : process_MarkUploaded(r, w)
  \/ \E r \in Runs, sign \in Outcomes, download \in Outcomes :
       process_Audio(r, sign, download, TheReflection)
  \/ \E r \in Runs, o \in Outcomes, h \in BOOLEAN : process_Voice(r, o, h)
  \/ \E r \in Runs, o \in Outcomes, h \in BOOLEAN : process_Agent(r, o, h)
  \/ \E u \in OnbUsers, a \in BOOLEAN, f \in BOOLEAN, n \in 0..2 :
       enqueue_Begin(u, a, f, n)
  \/ \E u \in OnbUsers, o \in Outcomes : enqueue_PatchProfile(u, o)

Spec == Init /\ [][Next]_vars

\* ------------------------------------------------- calls state machine
\* every user has finished onboarding; the tables of calls are empty
InitCalls ==
  /\ profiles = [u \in Users |-> ReadyProfile]
  /\ jobs = [u \in Users |-> 1]
  /\ timestamps = [u \in Users |-> 1]
  /\ run = [r \in Runs |-> IdleRun]
  /\ enq = [u \in Users |-> "idle"]
  /\ boot = [b \in Boots |-> IdleBoot]
  /\ calls = <<>>
  /\ scheduled = <<>>
  /\ now = 1
  /\ sc = [i \in Starts |-> IdleStart]
  /\ sw = [w \in Sweeps |-> IdleSweep]

\* the user whose calls are exercised
CallUsers == {"u1"}
\* the sweep that runs beside the startCall invocations
CallSweeps == {"w1"}

\* startCall invocations beside one sweep
NextCalls ==
  \/ \E i \in Starts, u \in CallUsers, o \in Outcomes : start_Begin(i, u, o)
  \/ \E i \in Starts, a \in ProviderAnswers : start_Ask(i, a)
  \/ \E i \in Starts, p \in Outcomes : start_Reconcile(i, p)
  \/ \E i \in Starts, prof \in Outcomes, ts \in Outcomes, act \in Outcomes :
       start_Check(i, prof, ts, act)
  \/ \E i \in Starts, o \in Outcomes : start_Insert(i, o)
  \/ \E i \in Starts, el \in Outcomes, h \in BOOLEAN, p \in Outcomes :
       start_Dial(i, el, h, p)
  \/ \E i \in Starts, o \in Outcomes : start_Catch(i, o)
  \/ \E w \in CallSweeps, l \in RequestedLimits, o \in Outcomes : sweep_Begin(w, l, o)
  \/ \E w \in CallSweeps, rpc \in Outcomes, select \in Outcomes :
       sweep_Claim(w, rpc, select)
  \/ \E w \in CallSweeps, o \in Outcomes : sweep_ClaimRow(w, o)
  \/ \E w \in CallSweeps, prof \in Outcomes, ins \in Outcomes :
       sweep_Insert(w, prof, ins)
  \/ \E w \in CallSweeps, el \in Outcomes, h \in BOOLEAN, p \in Outcomes :
       sweep_Dial(w, el, h, p)
  \/ \E w \in CallSweeps, o \in Outcomes : sweep_MarkExecuted(w, o)
  \/ \E w \in CallSweeps, o \in Outcomes : sweep_FailScheduled(w, o)
  \/ \E w \in CallSweeps, o \in Outcomes : sweep_FailCall(w, o)
  \/ \E u \in CallUsers, f \in ScheduleInstants :
       \E t \in StoreReads(f, ScheduleTimes) : schedule_POST(u, f, t)
  \/ Tick

SpecCalls == InitCalls /\ [][NextCalls]_vars

\* schedule, cancel and the sweeps
NextSched ==
  \/ \E w \in Sweeps, l \in RequestedLimits, o \in Outcomes : sweep_Begin(w, l, o)
  \/ \E w \in Sweeps, rpc \in Outcomes, select \in Outcomes :
       sweep_Claim(w, rpc, select)
  \/ \E w \in Sweeps, o \in Outcomes : sweep_ClaimRow(w, o)
  \/ \E w \in Sweeps, prof \in Outcomes, ins \in Outcomes :
       sweep_Insert(w, prof, ins)
  \/ \E w \in Sweeps, el \in Outcomes, h \in BOOLEAN, p \in Outcomes :
       sweep_Dial(w, el, h, p)
  \/ \E w \in Sweeps, o \in Outcomes : sweep_MarkExecuted(w, o)
  \/ \E w \in Sweeps, o \in Outcomes : sweep_FailScheduled(w, o)
  \/ \E w \in Sweeps, o \in Outcomes : sweep_FailCall(w, o)
  \/ \E u \in CallUsers, f \in ScheduleInstants :
       \E t \in StoreReads(f, ScheduleTimes) : schedule_POST(u, f, t)
  \/ \E u \in CallUsers, id \in 1..MaxScheduled : schedule_DELETE(u, id)
  \/ Tick

SpecSched == InitCalls /\ [][NextSched]_vars

\* schedule requests with every kind of scheduledFor, cancel, and one sweep
NextSchedule ==
  \/ \E u \in CallUsers, f \in ScheduleInputs :
       \E t \in StoreReads(f, ScheduleTimes) : schedule_POST(u, f, t)
  \/ \E u \in CallUsers, id \in 1..MaxScheduled : schedule_DELETE(u, id)
  \/ \E w \in CallSweeps, l \in RequestedLimits, o \in Outcomes : sweep_Begin(w, l, o)
  \/ \E w \in CallSweeps, rpc \in Outcomes, select \in Outcomes :
       sweep_Claim(w, rpc, select)
  \/ \E w \in CallSweeps, o \in Outcomes : sweep_ClaimRow(w, o)
  \/ \E w \in CallSweeps, prof \in Outcomes, ins \in Outcomes :
       sweep_Insert(w, prof, ins)
  \/ \E w \in CallSweeps, el \in Outcomes, h \in BOOLEAN, p \in Outcomes :
       sweep_Dial(w, el, h, p)
  \/ \E w \in CallSweeps, o \in Outcomes : sweep_MarkExecuted(w, o)
  \/ \E w \in CallSweeps, o \in Outcomes : sweep_FailScheduled(w, o)
  \/ \E w \in CallSweeps, o \in Outcomes : sweep_FailCall(w, o)
  \/ Tick

SpecSchedule == InitCalls /\ [][NextSchedule]_vars

\* ------------------------------------------- reconciliation state machine
\* calls the reconciliation pass may find stuck
MaxStuck == 4

\* the store answers every request with 2xx
StoreOk == {"ok"}

\* the instant of the pass, and the instants a stuck call was created or
\* started: one more than STALE_MS before the pass, exactly STALE_MS before
\* it, and at the pass
ReconcileNow == 2 * STALE_MS + 3
StartTimes == {ReconcileNow - STALE_MS - 1, ReconcileNow - STALE_MS, ReconcileNow}

\* a call left behind by a dispatcher: queued (the dispatcher ended before
\* the dial was recorded), dialing with the provider's conversation id, or
\* dialing without one (the provider's answer carried none); its scheduled
\* call is not among the rows that are followed
StuckRow(u, t, kind) ==
  [clerk_user_id |-> u, origin |-> "scheduled",
   status |-> IF kind = "queued" THEN "queued" ELSE "dialing",
   scheduled_call_id |-> NULL,
   eleven_conversation_id |-> IF kind = "dialing" THEN 1 ELSE NULL,
   created_at |-> t,
   started_at |-> IF kind = "queued" THEN NULL ELSE t,
   failure_reason |-> NoText]

StuckRows ==
  {StuckRow(u, t, kind) :
     u \in CallUsers, t \in StartTimes, kind \in {"queued", "dialing", "dialing_bare"}}

\* the calls table in insertion order: created_at does not decrease
StuckTables ==
  UNION {{Prefix(f, n) : f \in {g \in [1..n -> StuckRows] :
                                  \A a, b \in 1..n :
                                    a < b => g[a].created_at <= g[b].created_at}} :
         n \in 0..MaxStuck}

InitReconcile ==
  /\ profiles = [u \in Users |-> ReadyProfile]
  /\ jobs = [u \in Users |-> 1]
  /\ timestamps = [u \in Users |-> 1]
  /\ run = [r \in Runs |-> IdleRun]
  /\ enq = [u \in Users |-> "idle"]
  /\ boot = [b \in Boots |-> IdleBoot]
  /\ now = ReconcileNow
  /\ calls \in StuckTables
  /\ scheduled = <<>>
  /\ sc = [i \in Starts |-> IdleStart]
  /\ sw = [w \in Sweeps |-> IdleSweep]

\* the invocation whose reconciliation pass is followed
ReconcileStarts == {"s1"}

\* one startCall invocation up to its active-call check, the store healthy
NextReconcile ==
  \/ \E i \in ReconcileStarts, u \in CallUsers, o \in StoreOk : start_Begin(i, u, o)
  \/ \E i \in ReconcileStarts, a \in ProviderAnswers : start_Ask(i, a)
  \/ \E i \in ReconcileStarts, p \in StoreOk : start_Reconcile(i, p)
  \/ \E i \in ReconcileStarts, prof \in StoreOk, ts \in StoreOk, act \in StoreOk :
       start_Check(i, prof, ts, act)

SpecReconcile == InitReconcile /\ [][NextReconcile]_vars

\* ------------------------------------------------ startCall state machine
\* the profile a startCall invocation may meet: absent, fresh, ready
\* without agent id (the write that carried it was dropped), ready without
\* phone, back in voice_uploaded or error after it was ready (a second
\* processOnboarding run wrote its status late), and ready
StartProfiles ==
  {NoProfile, NewProfile(1),
   [ReadyProfile EXCEPT !.eleven_agent_id = NULL],
   [ReadyProfile EXCEPT !.phone_e164 = NULL],
   [ReadyProfile EXCEPT !.setup_status = "voice_uploaded"],
   [ReadyProfile EXCEPT !.setup_status = "error"],
   ReadyProfile}

\* a call row exists only for a user who passed the checks of a
\* dispatcher once: agent id, phone and a timestamp
InitStart ==
  /\ profiles \in {P \in [Users -> StartProfiles] :
                     \A u \in Users \ CallUsers : P[u] = ReadyProfile}
  /\ jobs = [u \in Users |-> 0]
  /\ timestamps \in {T \in [Users -> 0..1] : \A u \in Users \ CallUsers : T[u] = 1}
  /\ run = [r \in Runs |-> IdleRun]
  /\ enq = [u \in Users |-> "idle"]
  /\ boot = [b \in Boots |-> IdleBoot]
  /\ now = ReconcileNow
  /\ calls \in {t \in StuckTables : Len(t) <= 1}
  /\ \A k \in DOMAIN calls :
       LET p == profiles[calls[k].clerk_user_id]
       IN /\ p.present /\ p.eleven_agent_id # NULL /\ p.phone_e164 # NULL
          /\ timestamps[calls[k].clerk_user_id] > 0
  /\ scheduled = <<>>
  /\ sc = [i \in Starts |-> IdleStart]
  /\ sw = [w \in Sweeps |-> IdleSweep]

\* one startCall invocation from its first request to its last
NextStart ==
  \/ \E i \in ReconcileStarts, u \in CallUsers, o \in Outcomes : start_Begin(i, u, o)
  \/ \E i \in ReconcileStarts, a \in ProviderAnswers : start_Ask(i, a)
  \/ \E i \in ReconcileStarts, p \in Outcomes : start_Reconcile(i, p)
  \/ \E i \in ReconcileStarts, prof \in Outcomes, ts \in Outcomes, act \in Outcomes :
       start_Check(i, prof, ts, act)
  \/ \E i \in ReconcileStarts, o \in Outcomes : start_Insert(i, o)
  \/ \E i \in ReconcileStarts, el \in Outcomes, h \in BOOLEAN, p \in Outcomes :
       start_Dial(i, el, h, p)
  \/ \E i \in ReconcileStarts, o \in Outcomes : start_Catch(i, o)

SpecStart == InitStart /\ [][NextStart]_vars

\* ---------------------------------------------------- batch state machine
\* scheduled calls that are due when the sweep starts
MaxDue == 2

\* a row schedule_POST inserted at the clock's first instant
DueRow(u) ==
  [clerk_user_id |-> u, status |-> "pending", scheduled_for |-> 1,
   attempt_count |-> 0]

DueTables ==
  UNION {{Prefix(f, n) : f \in [1..n -> {DueRow(u) : u \in Users}]} :
         n \in 0..MaxDue}

\* one tick after the rows were scheduled: the profile of the user whose
\* calls are exercised is any a dispatcher may meet
InitBatch ==
  /\ profiles \in {P \in [Users -> StartProfiles] :
                     \A u \in Users \ CallUsers : P[u] = ReadyProfile}
  /\ jobs = [u \in Users |-> 1]
  /\ timestamps = [u \in Users |-> 1]
  /\ run = [r \in Runs |-> IdleRun]
  /\ enq = [u \in Users |-> "idle"]
  /\ boot = [b \in Boots |-> IdleBoot]
  /\ now = 1 + TickLength
  /\ calls = <<>>
  /\ scheduled \in DueTables
  /\ sc = [i \in Starts |-> IdleStart]
  /\ sw = [w \in Sweeps |-> IdleSweep]

\* one runDueCalls invocation from its first request to its last
NextBatch ==
  \/ \E w \in CallSweeps, l \in RequestedLimits, o \in Outcomes : sweep_Begin(w, l, o)
  \/ \E w \in CallSweeps, rpc \in Outcomes, select \in Outcomes :
       sweep_Claim(w, rpc, select)
  \/ \E w \in CallSweeps, o \in Outcomes : sweep_ClaimRow(w, o)
  \/ \E w \in CallSweeps, prof \in Outcomes, ins \in Outcomes :
       sweep_Insert(w, prof, ins)
  \/ \E w \in CallSweeps, el \in Outcomes, h \in BOOLEAN, p \in Outcomes :
       sweep_Dial(w, el, h, p)
  \/ \E w \in CallSweeps, o \in Outcomes : sweep_MarkExecuted(w, o)
  \/ \E w \in CallSweeps, o \in Outcomes : sweep_FailScheduled(w, o)
  \/ \E w \in CallSweeps, o \in Outcomes : sweep_FailCall(w, o)

SpecBatch == InitBatch /\ [][NextBatch]_vars

\* ------------------------------------------------ ownership state machine
\* what the store holds of the other users when the user who is followed
\* signs in: their calls, left non-terminal and stale by a dispatcher, and
\* their pending scheduled calls, with or without a row of the user's own
\* after them
OwnerCalls ==
  {<<>>} \cup
  {<<StuckRow(v, 1, "queued")>> : v \in Users \ CallUsers} \cup
  {<<StuckRow(v, 1, "dialing"), StuckRow(u, 1, "dialing")>> :
     v \in Users \ CallUsers, u \in CallUsers}

OwnerScheduled ==
  {<<>>} \cup
  {<<DueRow(v)>> : v \in Users \ CallUsers} \cup
  {<<DueRow(v), DueRow(u)>> : v \in Users \ CallUsers, u \in CallUsers}

\* the user who is followed has a new profile and no rows, or has
\* finished onboarding; every other user has finished onboarding
InitOwner ==
  /\ profiles \in {P \in [Users -> {NewProfile(1), ReadyProfile}] :
                     \A u \in Users \ CallUsers : P[u] = ReadyProfile}
  /\ jobs = [u \in Users |-> IF profiles[u] = ReadyProfile THEN 1 ELSE 0]
  /\ timestamps = jobs
  /\ run = [r \in Runs |-> IdleRun]
  /\ enq = [u \in Users |-> "idle"]
  /\ boot = [b \in Boots |-> IdleBoot]
  /\ now = 1 + TickLength
  /\ calls \in OwnerCalls
  /\ scheduled \in OwnerScheduled
  /\ \A k \in DOMAIN calls : profiles[calls[k].clerk_user_id] = ReadyProfile
  /\ \A k \in DOMAIN scheduled :
       profiles[scheduled[k].clerk_user_id] = ReadyProfile
  /\ sc = [i \in Starts |-> IdleStart]
  /\ sw = [w \in Sweeps |-> IdleSweep]

\* no handler is between two of its requests
Quiet ==
  /\ \A r \in Runs : run[r].pc \in {"idle", "done"}
  /\ \A u \in Users : enq[u] = "idle"
  /\ \A i \in Starts : sc[i].pc \in {"idle", "done"}

\* the processOnboarding invocation that is followed
OwnerRuns == {1}

\* the requests one signed-in user makes, one after the other
NextOwner ==
  \/ \E r \in OwnerRuns, u \in OnbUsers, b \in BOOLEAN, o \in Outcomes :
       Quiet /\ process_Load(r, u, b, o, TheMeta)
  \/ \E r \in OwnerRuns, w \in Outcomes : process_MarkUploaded(r, w)
  \/ \E r \in OwnerRuns, sign \in Outcomes, download \in Outcomes :
       process_Audio(r, sign, download, TheReflection)
  \/ \E r \in OwnerRuns, o \in Outcomes, h \in BOOLEAN : process_Voice(r, o, h)
  \/ \E r \in OwnerRuns, o \in Outcomes, h \in BOOLEAN : process_Agent(r, o, h)
  \/ \E u \in OnbUsers, a \in BOOLEAN, f \in BOOLEAN, n \in 0..2 :
       Quiet /\ enqueue_Begin(u, a, f, n)
  \/ \E u \in OnbUsers, o \in Outcomes : enqueue_PatchProfile(u, o)
  \/ \E i \in ReconcileStarts, u \in CallUsers, o \in Outcomes :
       Quiet /\ start_Begin(i, u, o)
  \/ \E i \in ReconcileStarts, a \in ProviderAnswers : start_Ask(i, a)
  \/ \E i \in ReconcileStarts, p \in Outcomes : start_Reconcile(i, p)
  \/ \E i \in ReconcileStarts, prof \in Outcomes, ts \in Outcomes, act \in Outcomes :
       start_Check(i, prof, ts, act)
  \/ \E i \in ReconcileStarts, o \in Outcomes : start_Insert(i, o)
  \/ \E i \in ReconcileStarts, el \in Outcomes, h \in BOOLEAN, p \in Outcomes :
       start_Dial(i, el, h, p)
  \/ \E i \in ReconcileStarts, o \in Outcomes : start_Catch(i, o)
  \/ \E u \in CallUsers, f \in ScheduleInstants :
       \E t \in StoreReads(f, ScheduleTimes) : Quiet /\ schedule_POST(u, f, t)
  \/ \E u \in CallUsers, id \in 1..MaxDue : Quiet /\ schedule_DELETE(u, id)

SpecOwner == InitOwner /\ [][NextOwner]_vars

\* ------------------------------------------------ abandoned-call state machine
\* one sweep beside one startCall invocation of either user, on a store
\* that holds calls a dispatcher abandoned a tick ago
NextAbandon ==
  \/ \E w \in CallSweeps, l \in RequestedLimits, o \in Outcomes : sweep_Begin(w, l, o)
  \/ \E w \in CallSweeps, rpc \in Outcomes, select \in Outcomes :
       sweep_Claim(w, rpc, select)
  \/ \E w \in CallSweeps, o \in Outcomes : sweep_ClaimRow(w, o)
  \/ \E w \in CallSweeps, prof \in Outcomes, ins \in Outcomes :
       sweep_Insert(w, prof, ins)
  \/ \E w \in CallSweeps, el \in Outcomes, h \in BOOLEAN, p \in Outcomes :
       sweep_Dial(w, el, h, p)
  \/ \E w \in CallSweeps, o \in Outcomes : sweep_MarkExecuted(w, o)
  \/ \E w \in CallSweeps, o \in Outcomes : sweep_FailScheduled(w, o)
  \/ \E w \in CallSweeps, o \in Outcomes : sweep_FailCall(w, o)
  \/ \E i \in ReconcileStarts, u \in Users, o \in Outcomes : start_Begin(i, u, o)
  \/ \E i \in ReconcileStarts, a \in ProviderAnswers : start_Ask(i, a)
  \/ \E i \in ReconcileStarts, p \in Outcomes : start_Reconcile(i, p)
  \/ \E i \in ReconcileStarts, prof \in Outcomes, ts \in Outcomes, act \in Outcomes :
       start_Check(i, prof, ts, act)
  \/ \E i \in ReconcileStarts, o \in Outcomes : start_Insert(i, o)
  \/ \E i \in ReconcileStarts, el \in Outcomes, h \in BOOLEAN, p \in Outcomes :
       start_Dial(i, el, h, p)
  \/ \E i \in ReconcileStarts, o \in Outcomes : start_Catch(i, o)

SpecAbandon == InitOwner /\ [][NextAbandon]_vars

\* ------------------------------------------------- time-mode state machine
\* one user from sign-up on: onboarding (begun while the user has no
\* call), then a manual call and a scheduled one, the handlers one after
\* the other.  The reads and the onboarding requests are answered 2xx;
\* the inserts, the dial requests and the writes that follow them are
\* answered in every way.  A call is scheduled for the next instant of
\* the clock.
NextTimeMode ==
  LET calm == Quiet /\ \A w \in Sweeps : sw[w].pc \in {"idle", "done"}
      first == calm /\ calls = <<>> /\ scheduled = <<>>
  IN \/ \E r \in OwnerRuns, u \in OnbUsers, b \in BOOLEAN, o \in StoreOk :
          first /\ process_Load(r, u, b, o, TheMeta)
     \/ \E r \in OwnerRuns, w \in StoreOk : process_MarkUploaded(r, w)
     \/ \E r \in OwnerRuns, sign \in StoreOk, download \in StoreOk :
          process_Audio(r, sign, download, TheReflection)
     \/ \E r \in OwnerRuns, o \in StoreOk, h \in BOOLEAN : process_Voice(r, o, h)
     \/ \E r \in OwnerRuns, o \in StoreOk, h \in BOOLEAN : process_Agent(r, o, h)
     \/ \E u \in OnbUsers, a \in BOOLEAN, f \in BOOLEAN, n \in 0..2 :
          first /\ enqueue_Begin(u, a, f, n)
     \/ \E u \in OnbUsers, o \in StoreOk : enqueue_PatchProfile(u, o)
     \/ \E i \in ReconcileStarts, u \in CallUsers, o \in StoreOk :
          calm /\ start_Begin(i, u, o)
     \/ \E i \in ReconcileStarts, a \in ProviderAnswers : start_Ask(i, a)
     \/ \E i \in ReconcileStarts, p \in StoreOk : start_Reconcile(i, p)
     \/ \E i \in ReconcileStarts, prof \in StoreOk, ts \in StoreOk, act \in StoreOk :
          start_Check(i, prof, ts, act)
     \/ \E i \in ReconcileStarts, o \in Outcomes : start_Insert(i, o)
     \/ \E i \in ReconcileStarts, el \in Outcomes, h \in BOOLEAN, p \in Outcomes :
          start_Dial(i, el, h, p)
     \/ \E i \in ReconcileStarts, o \in Outcomes : start_Catch(i, o)
     \/ \E u \in CallUsers :
          calm /\ schedule_POST(u, Instant(now + TickLength), now + TickLength)
     \/ \E w \in CallSweeps, l \in RequestedLimits, o \in StoreOk :
          calm /\ sweep_Begin(w, l, o)
     \/ \E w \in CallSweeps, rpc \in Outcomes, select \in Outcomes :
          sweep_Claim(w, rpc, select)
     \/ \E w \in CallSweeps, o \in Outcomes : sweep_ClaimRow(w, o)
     \/ \E w \in CallSweeps, prof \in StoreOk, ins \in Outcomes :
          sweep_Insert(w, prof, ins)
     \/ \E w \in CallSweeps, el \in Outcomes, h \in BOOLEAN, p \in Outcomes :
          sweep_Dial(w, el, h, p)
     \/ \E w \in CallSweeps, o \in Outcomes : sweep_MarkExecuted(w, o)
     \/ \E w \in CallSweeps, o \in Outcomes : sweep_FailScheduled(w, o)
     \/ \E w \in CallSweeps, o \in Outcomes : sweep_FailCall(w, o)
     \/ calm /\ Tick

SpecTimeMode == Init /\ [][NextTimeMode]_vars

\* --------------------------------------------------- prompt state machine
\* what the timestamp row may hold as title and snapshot date, and what
\* the extraction may return: texts, empty texts, nulls, lists with and
\* without empty entries
Metas ==
  {NoMeta} \cup
  [kind : {"row"}, title : {NoText, "", "t"}, snapshot_date : {NoText, "", "d"}]

Reflections ==
  [kind : {"reflection"},
   goals : {<<>>, <<"">>, <<"g", "", "h">>},
   fears : {<<>>, <<"f">>},
   situation : {"", "s"},
   currentWork : {NoText, "", "w"},
   otherNotes : {NoText, "n"}]

\* one processOnboarding run over every timestamp row and every recording
NextPrompt ==
  \/ \E r \in OwnerRuns, u \in OnbUsers, b \in BOOLEAN, o \in Outcomes, m \in Metas :
       process_Load(r, u, b, o, m)
  \/ \E r \in OwnerRuns, w \in Outcomes : process_MarkUploaded(r, w)
  \/ \E r \in OwnerRuns, sign \in Outcomes, download \in Outcomes,
         reflection \in Reflections :
       process_Audio(r, sign, download, reflection)
  \/ \E r \in OwnerRuns, o \in Outcomes, h \in BOOLEAN : process_Voice(r, o, h)
  \/ \E r \in OwnerRuns, o \in Outcomes, h \in BOOLEAN : process_Agent(r, o, h)

SpecPrompt == Init /\ [][NextPrompt]_vars

\* ------------------------------------------------ repeated-sweep state machine
\* the scheduled_calls table when the trigger starts to fire: pending rows
\* for the clock's instants in the order they were inserted, which need
\* not be the order of their instants
LiveTables ==
  UNION {{Prefix(f, n) :
            f \in [1..n -> {[DueRow(u) EXCEPT !.scheduled_for = t] :
                              u \in CallUsers, t \in ClockTimes}]} :
         n \in 0..MaxDue}

InitLive ==
  /\ profiles = [u \in Users |-> ReadyProfile]
  /\ jobs = [u \in Users |-> 1]
  /\ timestamps = [u \in Users |-> 1]
  /\ run = [r \in Runs |-> IdleRun]
  /\ enq = [u \in Users |-> "idle"]
  /\ boot = [b \in Boots |-> IdleBoot]
  /\ now = 1
  /\ calls = <<>>
  /\ scheduled \in LiveTables
  /\ sc = [i \in Starts |-> IdleStart]
  /\ sw = [w \in Sweeps |-> IdleSweep]

\* a step of one runDueCalls invocation, or its next invocation: the
\* capacity read, the claiming requests and the dial are answered in every
\* way, the store requests of the job loop 2xx
SweepStep(w) ==
  \/ \E l \in RequestedLimits, o \in Outcomes : sweep_Begin(w, l, o)
  \/ \E rpc \in Outcomes, select \in Outcomes : sweep_Claim(w, rpc, select)
  \/ \E o \in Outcomes : sweep_ClaimRow(w, o)
  \/ \E prof \in StoreOk, ins \in StoreOk : sweep_Insert(w, prof, ins)
  \/ \E el \in Outcomes, h \in BOOLEAN, p \in StoreOk : sweep_Dial(w, el, h, p)
  \/ \E o \in StoreOk : sweep_MarkExecuted(w, o)
  \/ \E o \in StoreOk : sweep_FailScheduled(w, o)
  \/ \E o \in StoreOk : sweep_FailCall(w, o)
  \/ sweep_Again(w)

\* the trigger fires again and again, beside schedule and cancel requests
NextLive ==
  \/ \E w \in CallSweeps : SweepStep(w)
  \/ \E u \in CallUsers, f \in ScheduleInstants :
       \E t \in StoreReads(f, ScheduleTimes) : schedule_POST(u, f, t)
  \/ \E u \in CallUsers, id \in 1..MaxDue : schedule_DELETE(u, id)
  \/ Tick

\* an invocation gets past its capacity decision
BeginStep(w) ==
  /\ \E l \in RequestedLimits, o \in Outcomes : sweep_Begin(w, l, o)
  /\ sw'[w].pc = "claim"

\* an invocation takes a row out of pending
ClaimStep(w) ==
  /\ \/ \E rpc \in Outcomes, select \in Outcomes : sweep_Claim(w, rpc, select)
     \/ \E o \in Outcomes : sweep_ClaimRow(w, o)
  /\ scheduled' # scheduled

\* a handler that was invoked runs on to its response and the trigger
\* invokes it again (maxDuration bounds every invocation); a request that
\* is repeated for ever is not refused for ever: the capacity read and
\* the claiming requests are answered 2xx again and again
FairLive ==
  \A w \in CallSweeps :
    /\ WF_vars(SweepStep(w))
    /\ SF_vars(BeginStep(w))
    /\ SF_vars(ClaimStep(w))

SpecLive == InitLive /\ [][NextLive]_vars /\ FairLive

\* ------------------------------------------------ bootstrap state machine
\* the user signs in for the first time or comes back while onboarding is
\* under way or over
InitBoot ==
  /\ profiles \in {P \in [Users -> {NoProfile, NewProfile(1), ReadyProfile}] :
                     \A u \in Users \ OnbUsers : P[u] = NewProfile(1)}
  /\ jobs = [u \in Users |-> 0]
  /\ timestamps = [u \in Users |-> 0]
  /\ run = [r \in Runs |-> IdleRun]
  /\ enq = [u \in Users |-> "idle"]
  /\ boot = [b \in Boots |-> IdleBoot]
  /\ calls = <<>>
  /\ scheduled = <<>>
  /\ now = 1
  /\ sc = [i \in Starts |-> IdleStart]
  /\ sw = [w \in Sweeps |-> IdleSweep]

\* bootstrap invocations of one user beside a processOnboarding run
NextBoot ==
  \/ \E b \in Boots, u \in OnbUsers, ph \in ClerkPhones, o \in Outcomes :
       bootstrap_Fetch(b, u, ph, o)
  \/ \E b \in Boots, o \in Outcomes : bootstrap_Create(b, o)
  \/ \E b \in Boots, o \in Outcomes : bootstrap_Patch(b, o)
  \/ \E r \in OwnerRuns, u \in OnbUsers, bd \in BOOLEAN, o \in Outcomes :
       process_Load(r, u, bd, o, TheMeta)
  \/ \E r \in OwnerRuns, w \in Outcomes : process_MarkUploaded(r, w)
  \/ \E r \in OwnerRuns, sign \in Outcomes, download \in Outcomes :
       process_Audio(r, sign, download, TheReflection)
  \/ \E r \in OwnerRuns, o \in Outcomes, h \in BOOLEAN : process_Voice(r, o, h)
  \/ \E r \in OwnerRuns, o \in Outcomes, h \in BOOLEAN : process_Agent(r, o, h)

SpecBoot == InitBoot /\ [][NextBoot]_vars

\* ===================================================== onboarding claims

\* the order new < voice_uploaded < voice_created < agent_created < ready
Rank(s) ==
  CASE s = "new" -> 0
    [] s = "voice_uploaded" -> 1
    [] s = "voice_created" -> 2
    [] s = "agent_created" -> 3
    [] s = "ready" -> 4
    [] OTHER -> 5

\* results of a run that a failed fatal step ended
FatalFailures ==
  {"signed_url_failed", "download_failed", "voice_create_failed", "no_voice_id",
   "agent_create_failed", "no_agent_id"}

\* C1: in every reachable state a profile whose setup_status is ready has
\* a non-null voice id and a non-null agent id.
C1_ReadyHasIds ==
  \A u \in Users :
    (profiles[u].present /\ profiles[u].setup_status = "ready")
      => (profiles[u].eleven_voice_id # NULL /\ profiles[u].eleven_agent_id # NULL)

\* C6: setup_status never regresses: every change of a profile's
\* setup_status goes to a later status of the order, or to error.  (A
\* change that leaves error, the resubmission, is let through here, so a
\* violation is a regression between two statuses of the order.)
C6_ForwardOnly ==
  [][\A u \in Users :
       LET a == profiles[u].setup_status
           b == profiles'[u].setup_status
       IN a = b \/ b = "error" \/ a = "error" \/ Rank(b) > Rank(a)]_vars

\* C8: processOnboarding on a profile that is ready with both ids set
\* ends in the step that loaded the profile (so before any storage,
\* transcription, extraction, voice-clone or agent-create request and
\* before any record-store write), changes no record, and returns the
\* profile's voice id and agent id.
C8_IdempotentWhenReady ==
  [][\A r \in Runs :
       LET u == run'[r].user
           p == profiles[u]
       IN (/\ run[r].pc \in {"idle", "done"}
           /\ run'[r] # run[r]
           /\ run'[r].result \notin {"missing_voiceSamplePath", "crashed",
                                     "fetch_profile_failed"}
           /\ p.present
           /\ p.setup_status = "ready"
           /\ p.eleven_voice_id # NULL
           /\ p.eleven_agent_id # NULL)
          => (/\ run'[r].pc = "done"
              /\ run'[r].result = "already_ready"
              /\ run'[r].voiceId = p.eleven_voice_id
              /\ run'[r].agentId = p.eleven_agent_id
              /\ profiles' = profiles
              /\ jobs' = jobs
              /\ timestamps' = timestamps)]_vars

\* C8 witness: a run has returned the ids of an already-ready profile
C8_Witness ==
  \E r \in Runs :
    /\ run[r].pc = "done"
    /\ run[r].result = "already_ready"
    /\ run[r].voiceId # NULL
    /\ run[r].agentId # NULL

\* C9: when a fatal step (signed URL, download, voice clone, agent
\* creation) fails, by a failure response or by a rejected request, the
\* run ends there with setup_status = error.
C9_FatalFailureEndsInError ==
  [][\A r \in Runs :
       (/\ run[r].pc \in {"audio", "voice", "agent"}
        /\ run'[r].pc = "done"
        /\ run'[r].result \in FatalFailures \cup {"crashed"})
       => profiles'[run[r].user].setup_status = "error"]_vars

\* C10: every run that got past the idempotency check ends with the
\* profile's setup_status in {ready, error}, whatever external call failed
\* or was rejected.
C10_EndsReadyOrError ==
  [][\A r \in Runs :
       (/\ run[r].pc \in {"mark_uploaded", "audio", "voice", "agent"}
        /\ run'[r].pc = "done")
       => profiles'[run[r].user].setup_status \in {"ready", "error"}]_vars

\* C11: a run whose transcription or extraction failed goes on with
\* extracted = null; the prompt it sends to agents/create has none of the
\* Goals, Fears, Situation, Current work and Other notes lines, and when
\* the voice clone and the agent creation then succeed (the run answers
\* ok) the profile is ready.
C11_ExtractionFailureSwallowed ==
  [][\A r \in Runs :
       (/\ run[r].pc = "agent"
        /\ run[r].extracted = NullReflection
        /\ run'[r].pc = "done"
        /\ run'[r].result = "ok")
       => /\ Len(run'[r].prompt) = 9
          /\ \A k \in DOMAIN run'[r].prompt :
               run'[r].prompt[k] \notin {"Goals: g", "Situation: s", "Other notes: n"}
          /\ profiles'[run[r].user].setup_status = "ready"]_vars

\* C12: when the run of an enqueued attempt ends, a status poll no longer
\* reports queued: it reports completed when the run leaves the profile
\* ready, and failed with an error message when it leaves it in error.
C12_JobEndsTerminal ==
  [][\A r \in Runs :
       LET u == run[r].user
           poll == status_GET(jobs', profiles', u)
       IN (/\ run[r].pc \in {"mark_uploaded", "audio", "voice", "agent"}
           /\ run'[r].pc = "done"
           /\ jobs[u] > 0)
          => /\ poll.status # "queued"
             /\ profiles'[u].setup_status = "ready" => poll.status = "completed"
             /\ profiles'[u].setup_status = "error"
                  => poll.status = "failed" /\ poll.errorMessage # NULL]_vars

\* ========================================================== call claims

\* the scheduled calls an invocation of runDueCalls holds: claimed and not
\* yet processed to the end
Held(rec) == {rec.jobs[n] : n \in DOMAIN rec.jobs}

\* the order queued < dialing < in_progress < {completed, failed}
CallRank(s) ==
  CASE s = "queued" -> 0
    [] s = "dialing" -> 1
    [] s = "in_progress" -> 2
    [] OTHER -> 3

\* C2: whenever a startCall invocation of a user is past its
\* reconciliation pass, at most one call of that user is queued, dialing
\* or in_progress.
C2_OneActiveCallPerUser ==
  \A i \in Starts :
    sc[i].reconciled => Cardinality(ActiveIds(calls, sc[i].user)) <= 1

C4_CancelOnlyPending ==
  [][\A k \in DOMAIN scheduled :
       /\ scheduled[k].status \notin {"pending", "canceled"}
            => scheduled'[k].status # "canceled"
       /\ scheduled[k].status = "executing"
            => k \notin fetchScheduledCalls(scheduled, scheduled[k].clerk_user_id)]_vars

\* C5: every status change of a scheduled call is pending -> executing,
\* executing -> executed, executing -> failed or pending -> canceled.
C5_ScheduledTransitions ==
  [][\A k \in DOMAIN scheduled :
       \/ scheduled'[k].status = scheduled[k].status
       \/ <<scheduled[k].status, scheduled'[k].status>> \in
            {<<"pending", "executing">>, <<"executing", "executed">>,
             <<"executing", "failed">>, <<"pending", "canceled">>}]_vars

\* C7: every status change of a call goes to a later status of the order
\* queued < dialing < in_progress < {completed, failed}, and a completed
\* or failed call keeps its status.
C7_CallForwardOnly ==
  [][\A k \in DOMAIN calls :
       \/ calls'[k].status = calls[k].status
       \/ /\ calls[k].status \notin {"completed", "failed"}
          /\ CallRank(calls'[k].status) > CallRank(calls[k].status)]_vars

\* when a call started: started_at, else created_at
StartOf(row) == IF row.started_at # NULL THEN row.started_at ELSE row.created_at

C14_NoStaleActiveAfterPass ==
  \A i \in Starts :
    (sc[i].pc = "check" /\ sc[i].reconciled)
      => \A k \in ActiveIds(calls, sc[i].user) : now - StartOf(calls[k]) <= 12

\* C15: the reconciliation step for a conversation record that carries a
\* duration, an end time or a closing status word marks the call
\* completed, whatever the call's age and whatever the value carried.
C15_ReportedEndCompletes ==
  [][\A i \in Starts :
       (/\ sc[i].pc = "reconcile"
        /\ sc'[i] # sc[i]
        /\ sc[i].details \in ConversationRecords
        /\ \/ sc[i].details.call_duration_secs # Absent
           \/ sc[i].details.end_time_unix_secs # Absent
           \/ sc[i].details.status \in {"completed", "ended", "done", "finished",
                                        "DONE"})
       => calls'[Head(sc[i].active).id].status = "completed"]_vars

\* C16: every row the schedule operation adds is pending and holds a
\* scheduled_for strictly later than the instant of the request; nothing
\* else of the table changes in that step.
C16_ScheduleOnlyFuture ==
  [][Len(scheduled') > Len(scheduled)
       => /\ Len(scheduled') = Len(scheduled) + 1
          /\ SubSeq(scheduled', 1, Len(scheduled)) = scheduled
          /\ scheduled'[Len(scheduled')].status = "pending"
          /\ scheduled'[Len(scheduled')].scheduled_for > now]_vars

\* the scheduled calls that go from pending to executing in a step
Claimed == {k \in DOMAIN scheduled : /\ scheduled[k].status = "pending"
                                     /\ scheduled'[k].status = "executing"}

\* C17: the limit an invocation of runDueCalls works with is at most
\* max(0, ceiling - number of calls that are queued, dialing or
\* in_progress when it counts them); when that number is 0 the invocation
\* ends there and changes no record; its claiming step selects and claims
\* at most limit rows.
C17_ClaimWithinCapacity ==
  [][\A w \in Sweeps :
       LET available == Max(0, MAX_CONCURRENT_CALLS - Cardinality(
                              {k \in DOMAIN calls : calls[k].status \in ActiveStatuses}))
       IN /\ (sw[w].pc = "idle" /\ sw'[w] # sw[w])
               => /\ sw'[w].limit <= available
                  /\ available = 0 => /\ sw'[w].pc = "done"
                                      /\ calls' = calls
                                      /\ scheduled' = scheduled
          /\ (sw[w].pc = "claim" /\ sw'[w] # sw[w])
               => /\ Cardinality(Claimed) <= sw[w].limit
                  /\ Len(sw'[w].due) <= sw[w].limit
                  /\ Len(sw'[w].jobs) <= sw[w].limit]_vars

\* C18: a scheduled call becomes executing, and an invocation of
\* runDueCalls comes to hold it, only in a step that starts with the row
\* pending and scheduled_for <= now; a row that is not yet due, canceled,
\* failed, executed or executing is never taken.
C18_OnlyDuePendingClaimed ==
  [][\A k \in DOMAIN scheduled :
       (\/ scheduled'[k].status = "executing" /\ scheduled[k].status # "executing"
        \/ \E w \in Sweeps : k \notin Held(sw[w]) /\ k \in Held(sw'[w]))
       => /\ scheduled[k].status = "pending"
          /\ scheduled[k].scheduled_for <= now]_vars

\* C18 witness: a row is failed and due, and an invocation that has room
\* for it is at its claiming step
C18_Witness ==
  \E k \in DOMAIN scheduled : \E w \in Sweeps :
    /\ scheduled[k].status = "failed"
    /\ scheduled[k].scheduled_for <= now
    /\ sw[w].pc = "claim"
    /\ sw[w].limit > 0

\* C19: a startCall invocation of a user whose profile exists and is not
\* ready, or has no agent id, never comes to insert a call row or to send
\* the outbound-call request, adds no row to calls, and once the profile
\* request is answered ends with the NotReady error (a profile request
\* that fails ends the invocation with that failure instead).
C19_NotReadyNoCall ==
  [][\A i \in Starts :
       LET p == profiles[sc'[i].user]
       IN (/\ sc'[i] # sc[i]
           /\ p.present
           /\ p.setup_status # "ready" \/ p.eleven_agent_id = NULL)
          => /\ sc'[i].pc \notin {"insert", "dial", "catch"}
             /\ Len(calls') = Len(calls)
             /\ sc[i].pc = "check"
                  => /\ sc'[i].pc = "done"
                     /\ sc'[i].result \in {"not_ready", "fetch_profile_failed",
                                           "crashed"}]_vars

\* C19 witness: an invocation ended NotReady on a profile that is ready
\* but has no agent id
C19_Witness ==
  \E i \in Starts :
    /\ sc[i].pc = "done"
    /\ sc[i].result = "not_ready"
    /\ profiles[sc[i].user].setup_status = "ready"
    /\ profiles[sc[i].user].eleven_agent_id = NULL

\* the precondition error startCall answers with for the store as it is,
\* "-" when the preconditions hold
PreconditionError(u) ==
  IF ~profiles[u].present THEN "profile_not_found"
  ELSE IF profiles[u].setup_status # "ready" \/ profiles[u].eleven_agent_id = NULL
    THEN "not_ready"
  ELSE IF profiles[u].phone_e164 = NULL THEN "missing_phone"
  ELSE IF timestamps[u] = 0 THEN "no_timestamp"
  ELSE "-"

\* C20: no step of a startCall invocation that is to end with a
\* precondition error (profile missing, not ready, missing phone,
\* timestamp missing) changes a record of the store.
C20_PreconditionErrorNoMutation ==
  [][\A i \in Starts :
       (/\ sc'[i] # sc[i]
        /\ PreconditionError(sc'[i].user) # "-")
       => /\ calls' = calls
          /\ scheduled' = scheduled
          /\ profiles' = profiles
          /\ timestamps' = timestamps
          /\ jobs' = jobs]_vars

\* the user has a call that is queued, dialing or in_progress
HasActiveCall(u) ==
  \E k \in DOMAIN calls :
    /\ calls[k].clerk_user_id = u
    /\ calls[k].status \in {"queued", "dialing", "in_progress"}

\* C21 as stated: a startCall invocation that comes out of its
\* reconciliation pass while a call of its user is queued, dialing or
\* in_progress ends with the ActiveCallExists conflict, inserts no call
\* row and does not come to the outbound-call request.
C21_ActiveCallAlwaysConflict ==
  [][\A i \in Starts :
       (/\ sc[i].pc = "check"
        /\ sc'[i] # sc[i]
        /\ HasActiveCall(sc[i].user))
       => /\ sc'[i].pc = "done"
          /\ sc'[i].result = "call_in_progress"
          /\ calls' = calls]_vars

\* C21: a startCall invocation that comes out of its reconciliation pass
\* while a call of its user is queued, dialing or in_progress inserts no
\* call row and does not come to the outbound-call request; it ends with
\* the ActiveCallExists conflict when the profile and timestamp checks
\* before the active-call check pass and the reads are answered, and with
\* the error of the earlier check or read otherwise.
C21_ActiveCallBlocks ==
  [][\A i \in Starts :
       (/\ sc[i].pc = "check"
        /\ sc'[i] # sc[i]
        /\ HasActiveCall(sc[i].user))
       => /\ sc'[i].pc = "done"
          /\ calls' = calls
          /\ \/ sc'[i].result \in {"fetch_profile_failed", "fetch_timestamp_failed",
                                    "active_check_failed", "crashed"}
             \/ sc'[i].result = IF PreconditionError(sc[i].user) = "-"
                                THEN "call_in_progress"
                                ELSE PreconditionError(sc[i].user)]_vars

\* C21 witness: an invocation ended with the conflict while the call that
\* blocked it is still active
C21_Witness ==
  \E i \in Starts :
    /\ sc[i].pc = "done"
    /\ sc[i].result = "call_in_progress"
    /\ HasActiveCall(sc[i].user)

\* C22: when a startCall invocation that inserted a call row returns, the
\* row is not queued any more: it is dialing when the outbound-call
\* request was accepted and failed, with a failure reason, when it was not.
C22_InsertedCallLeavesQueued ==
  [][\A i \in Starts :
       (/\ sc[i].pc \in {"dial", "catch"}
        /\ sc'[i].pc = "done")
       => LET row == calls'[sc[i].callId]
          IN /\ row.status \in {"dialing", "failed"}
             /\ sc'[i].result = "ok" => row.status = "dialing"
             /\ sc'[i].result \in {"dial_failed", "dial_crashed"}
                  => /\ row.status = "failed"
                     /\ row.failure_reason # NoText]_vars

\* the steps of runDueCalls that process a claimed job
JobSteps == {"insert", "dial", "mark_executed", "fail_scheduled", "fail_call"}

\* C23: a runDueCalls invocation that is processing its claimed jobs ends
\* only with the last of them: whatever fails while a job is processed,
\* the jobs claimed with it are still processed.
C23_FailedJobKeepsBatch ==
  [][\A w \in Sweeps :
       (sw[w].pc \in JobSteps /\ sw'[w].pc = "done")
       => Tail(sw[w].jobs) = <<>>]_vars

\* C24: when runDueCalls is through the catch block of a claimed job, the
\* scheduled call is failed, and the call row created for it, if any, is
\* failed with a failure reason.
C24_FailedJobMarkedFailed ==
  [][\A w \in Sweeps :
       (/\ sw[w].pc \in {"fail_scheduled", "fail_call"}
        /\ sw'[w].pc \notin {"fail_scheduled", "fail_call"})
       => /\ scheduled'[Head(sw[w].jobs)].status = "failed"
          /\ sw[w].callId # NULL
               => /\ calls'[sw[w].callId].status = "failed"
                  /\ calls'[sw[w].callId].failure_reason # NoText]_vars

\* C25: when runDueCalls is through the try block of a claimed job whose
\* dial was accepted, the call row is dialing and the scheduled call is
\* executed; the invocation answers with processed = the number of
\* scheduled calls that ended executed, claimed = the number of rows it
\* claimed, and processed <= claimed.
C25_ProcessedCountsExecuted ==
  [][\A w \in Sweeps :
       /\ (sw[w].pc = "mark_executed" /\ sw'[w].pc # "mark_executed"
             /\ sw'[w].pc # "fail_scheduled")
          => /\ calls'[sw[w].callId].status = "dialing"
             /\ scheduled'[Head(sw[w].jobs)].status = "executed"
       /\ (sw[w].pc # "done" /\ sw'[w].pc = "done" /\ sw'[w].result = "ok")
          => /\ sw'[w].processed =
                  Cardinality({k \in DOMAIN scheduled' :
                                 scheduled'[k].status = "executed"})
             /\ sw'[w].claimed =
                  Cardinality({k \in DOMAIN scheduled' :
                                 scheduled'[k].status # "pending"})
             /\ sw'[w].processed <= sw'[w].claimed]_vars

\* C26: a request of a signed-in user leaves every profile, timestamp,
\* job, call and scheduled call of the other users as it is and adds no
\* row in their name; the snapshot of its reconciliation pass holds calls
\* of the user only, and the job-status poll answers as it would on a store
\* that holds nothing of the other users.
C26_OwnRecordsOnly ==
  [][/\ \A v \in Users \ CallUsers :
          /\ profiles'[v] = profiles[v]
          /\ timestamps'[v] = timestamps[v]
          /\ jobs'[v] = jobs[v]
          /\ \A k \in DOMAIN calls' :
               calls'[k].clerk_user_id = v
                 => k \in DOMAIN calls /\ calls'[k] = calls[k]
          /\ \A k \in DOMAIN scheduled' :
               scheduled'[k].clerk_user_id = v
                 => k \in DOMAIN scheduled /\ scheduled'[k] = scheduled[k]
     /\ \A i \in Starts : \A n \in DOMAIN sc'[i].active :
          calls[sc'[i].active[n].id].clerk_user_id = sc'[i].user
     /\ \A u \in CallUsers :
          /\ status_GET(jobs', profiles', u) =
               status_GET([v \in Users |-> IF v = u THEN jobs'[v] ELSE 0],
                          [v \in Users |-> IF v = u THEN profiles'[v] ELSE NoProfile],
                          u)
          /\ \A k \in fetchScheduledCalls(scheduled', u) :
               scheduled'[k].clerk_user_id = u]_vars

\* C26 witness: the user's startCall is over and its reconciliation pass
\* closed the user's stale call, the user canceled the scheduled call of
\* their own, and the other user's stale call and pending scheduled call
\* are as they were
C26_Witness ==
  /\ \E i \in Starts : sc[i].pc = "done" /\ sc[i].user \in CallUsers
  /\ \E a, b \in DOMAIN calls :
       /\ calls[a].clerk_user_id \notin CallUsers
       /\ calls[a].status = "dialing"
       /\ calls[b].clerk_user_id \in CallUsers
       /\ calls[b].status \in {"failed", "completed"}
  /\ \E k, m \in DOMAIN scheduled :
       /\ scheduled[k].clerk_user_id \notin CallUsers
       /\ scheduled[k].status = "pending"
       /\ scheduled[m].clerk_user_id \in CallUsers
       /\ scheduled[m].status = "canceled"

StatusAt(pc) ==
  CASE pc = "audio" -> "voice_uploaded"
    [] pc = "voice" -> "voice_created"
    [] pc = "agent" -> "agent_created"
    [] pc = "done" -> "ready"
    [] OTHER -> "new"

NextStep(pc) ==
  CASE pc = "mark_uploaded" -> "audio"
    [] pc = "audio" -> "voice"
    [] pc = "voice" -> "agent"
    [] OTHER -> "done"

\* C28: a step of a processOnboarding run whose requests succeed takes the
\* run to the next step of the order voice_uploaded, (download,
\* transcription, extraction), voice_created, (voice clone), agent_created
\* with the voice id, (agent create), ready with the agent id; the status
\* write that closes the step, when the store applies it, writes the
\* status of that order, so the status a reader sees moves one status
\* forward with each write of a run whose writes are all applied.
C28_StatusWritesInOrder ==
  [][\A r \in Runs :
       LET u == run[r].user
           a == profiles[u].setup_status
           b == profiles'[u].setup_status
       IN (/\ run[r].pc \in {"mark_uploaded", "audio", "voice", "agent"}
           /\ run'[r] # run[r]
           /\ run'[r].pc = "done" => run'[r].result = "ok")
          => /\ run'[r].pc = NextStep(run[r].pc)
             /\ b \in {StatusAt(run'[r].pc), a}
             /\ (b # a /\ a = StatusAt(run[r].pc)) => Rank(b) = Rank(a) + 1
             /\ (b # a /\ b = "agent_created")
                  => /\ profiles'[u].eleven_voice_id # NULL
                     /\ profiles'[u].eleven_voice_id = run'[r].voiceId
             /\ (b # a /\ b = "ready")
                  => /\ profiles'[u].eleven_agent_id # NULL
                     /\ profiles'[u].eleven_agent_id = run'[r].agentId]_vars

\* C28 witness: a run went through every step and its last write made the
\* profile ready with both ids
C28_Witness ==
  \E r \in Runs :
    /\ run[r].pc = "done"
    /\ run[r].result = "ok"
    /\ run[r].voiceId # NULL /\ run[r].agentId # NULL
    /\ profiles[run[r].user].setup_status = "ready"
    /\ profiles[run[r].user].eleven_voice_id = run[r].voiceId
    /\ profiles[run[r].user].eleven_agent_id = run[r].agentId

C30_EndAndDurationFromProvider ==
  [][\A i \in Starts :
       (/\ sc[i].pc = "reconcile"
        /\ sc'[i] # sc[i]
        /\ sc[i].details \in ConversationRecords
        /\ calls'[Head(sc[i].active).id].status = "completed")
       => LET k == Head(sc[i].active).id
              d == sc[i].details
              duration == d.call_duration_secs
              local == getTimeMs(StartOf(calls[k]))
              row == calls'[k]
          IN /\ d.end_time_unix_secs # Absent
                  => row.ended_at = d.end_time_unix_secs * 1000
             /\ (d.end_time_unix_secs = Absent /\ duration # Absent)
                  => row.ended_at =
                       IF d.start_time_unix_secs # Absent
                       THEN (d.start_time_unix_secs + duration) * 1000
                       ELSE local + duration * 1000
             /\ row.duration_seconds =
                  IF duration # Absent THEN duration
                  ELSE Max(0, (row.ended_at - local) \div 1000)
             /\ row.duration_seconds >= 0]_vars

\* C31: with the store healthy, the reconciliation step for a call that
\* started 12 minutes or less before the pass leaves the whole calls table
\* as it is (status, ended_at, duration_seconds, failure_reason and every
\* other column of every row) when the call has no conversation id, when
\* the provider answered 404 or another non-2xx status, and when the
\* conversation record carries no duration, no end time and no closing
\* status word.
C31_FreshUndeterminedUntouched ==
  [][\A i \in Starts :
       (/\ sc[i].pc = "reconcile"
        /\ sc'[i] # sc[i]
        /\ sc[i].now - StartOf(calls[Head(sc[i].active).id]) <= 12
        /\ \/ calls[Head(sc[i].active).id].eleven_conversation_id = NULL
           \/ sc[i].details.kind \in {"404", "error"}
           \/ /\ sc[i].details.kind = "details"
              /\ sc[i].details.call_duration_secs = Absent
              /\ sc[i].details.end_time_unix_secs = Absent
              /\ sc[i].details.status \notin {"completed", "ended", "done",
                                              "finished", "DONE"})
       => /\ calls' = calls
          /\ sc'[i].pc \in {"reconcile", "check"}]_vars

\* C31 witness: a pass is over that examined every call of the table, and
\* two calls that started at the instant of the pass are still dialing,
\* one without a conversation id and one with
C31_Witness ==
  \E i \in Starts : \E k1, k2 \in DOMAIN calls :
    /\ sc[i].pc = "check"
    /\ sc[i].reconciled
    /\ Len(calls) <= 3
    /\ StartOf(calls[k1]) = now /\ StartOf(calls[k2]) = now
    /\ calls[k1].status = "dialing" /\ calls[k1].eleven_conversation_id = NULL
    /\ calls[k2].status = "dialing" /\ calls[k2].eleven_conversation_id # NULL

\* C32: in runDueCalls the step that loads the owning profile of a claimed
\* job inserts no call row and does not go on to the dial when the profile
\* is missing, not ready, without agent id or without phone number: the job
\* is aborted with the error named after the failed check (profile_not_found,
\* profile_not_ready, missing_agent_id, missing_phone).  The step that
\* follows sets the job's scheduled call to failed with that reason, leaves
\* every other scheduled call as it is, and the invocation goes on to its
\* next job or returns ok.
C32_UnusableProfileAbortsJob ==
  [][\A w \in Sweeps :
       LET j == Head(sw[w].jobs)
           p == profiles[scheduled[j].clerk_user_id]
           named == CASE ~p.present -> "profile_not_found"
                      [] p.present /\ p.setup_status # "ready" -> "profile_not_ready"
                      [] p.present /\ p.setup_status = "ready"
                           /\ p.eleven_agent_id = NULL -> "missing_agent_id"
                      [] OTHER -> "missing_phone"
       IN /\ (/\ sw[w].pc = "insert"
              /\ sw'[w] # sw[w]
              /\ \/ ~p.present
                 \/ p.setup_status # "ready"
                 \/ p.eleven_agent_id = NULL
                 \/ p.phone_e164 = NULL)
             => /\ calls' = calls
                /\ sw'[w].pc = "fail_scheduled"
                /\ sw'[w].callId = NULL
                /\ sw'[w].reason \in {named, "profile_not_found", "job_error"}
          /\ (/\ sw[w].pc = "fail_scheduled"
              /\ sw'[w] # sw[w]
              /\ sw[w].reason \in {"profile_not_found", "profile_not_ready",
                                   "missing_agent_id", "missing_phone"})
             => /\ calls' = calls
                /\ scheduled'[j].status = "failed"
                /\ scheduled'[j].failure_reason = sw[w].reason
                /\ \A k \in DOMAIN scheduled : k # j => scheduled'[k] = scheduled[k]
                /\ IF Tail(sw[w].jobs) = <<>>
                   THEN sw'[w].pc = "done" /\ sw'[w].result = "ok"
                   ELSE sw'[w].pc = "insert" /\ sw'[w].jobs = Tail(sw[w].jobs)]_vars

\* C33: a step changes a call row that existed before it only when it is a
\* step of the runDueCalls invocation that inserted the row, or a step of
\* a startCall invocation of the row's owner; a runDueCalls invocation
\* takes a call id only from its own insert.  So a call left in dialing by
\* a dispatcher keeps its status and every other column, and stays among
\* the calls the ceiling counts, through every runDueCalls invocation and
\* every startCall invocation of another user.
C33_OnlyOwnersStartTouchesCall ==
  [][/\ \A k \in DOMAIN calls :
          calls'[k] # calls[k] =>
            \/ \E w \in Sweeps : sw'[w] # sw[w] /\ sw[w].callId = k
            \/ \E i \in Starts :
                 /\ sc'[i] # sc[i]
                 /\ sc[i].user = calls[k].clerk_user_id
     /\ \A w \in Sweeps :
          (sw'[w].callId # sw[w].callId /\ sw'[w].callId # NULL)
            => /\ sw[w].callId = NULL
               /\ Len(calls') = Len(calls) + 1
               /\ sw'[w].callId = Len(calls')]_vars

\* C33 witness: a sweep is over that inserted and dialed a call of its
\* own, a startCall invocation of u1 is past its reconciliation pass, and
\* the call of u2 that was abandoned more than 12 minutes ago is as it was
C33_Witness ==
  /\ \E w \in Sweeps : sw[w].pc = "done" /\ sw[w].processed >= 1
  /\ \E i \in Starts : sc[i].user = "u1" /\ sc[i].reconciled
  /\ Len(calls) = 2
  /\ calls[1] = StuckRow("u2", 1, "queued")
  /\ now - calls[1].created_at > STALE_MS
  /\ calls[2].origin = "scheduled" /\ calls[2].status = "dialing"

\* C35: the prompt of the agent a run creates has, after its nine fixed
\* lines, the line of a field (Goals, Fears, Situation, Current
\* work/school, Other notes) exactly when the extracted reflection holds
\* something for that field (a text that is not empty, a list with an
\* entry that is not empty); and when the timestamp row gives no title or
\* no snapshot date the prompt holds no text put in its place (no "self",
\* no "this date").
C35_PromptOnlyGroundTruth ==
  [][\A r \in Runs :
       (/\ run[r].pc = "agent"
        /\ run'[r].pc = "done"
        /\ run'[r].result = "ok")
       => LET prompt == run'[r].prompt
              lines == {prompt[k] : k \in DOMAIN prompt}
              e == run[r].extracted
              m == run[r].tsMeta
              given == e # NullReflection
              goals == given /\ \E k \in DOMAIN e.goals : e.goals[k] # ""
              fears == given /\ \E k \in DOMAIN e.fears : e.fears[k] # ""
              situation == given /\ e.situation # ""
              currentWork == given /\ e.currentWork \notin {NoText, ""}
              otherNotes == given /\ e.otherNotes \notin {NoText, ""}
              count == Cardinality({f \in {"goals", "fears", "situation",
                                          "currentWork", "otherNotes"} :
                         \/ f = "goals" /\ goals
                         \/ f = "fears" /\ fears
                         \/ f = "situation" /\ situation
                         \/ f = "currentWork" /\ currentWork
                         \/ f = "otherNotes" /\ otherNotes})
              noTitle == m = NoMeta \/ m.title = NoText
              noDate == m = NoMeta \/ m.snapshot_date = NoText
          IN /\ Len(prompt) = 9 + count
             /\ goals <=> "Goals: g; h" \in lines
             /\ fears <=> "Fears: f" \in lines
             /\ situation <=> "Situation: s" \in lines
             /\ currentWork <=> "Current work/school: w" \in lines
             /\ otherNotes <=> "Other notes: n" \in lines
             /\ noTitle => \A d \in {"this date", "", "d"} :
                  ("You are the user's self at " \o d \o ".") \notin lines
             /\ noDate => \A t \in {"self", "\"t\""} :
                  ("You are the user's " \o t \o " at this date.") \notin lines]_vars

\* C34: every outbound-call request of startCall carries time_mode
\* "future" and every outbound-call request of runDueCalls carries
\* time_mode "past"; and the prompt of the agent a processOnboarding run
\* creates holds the line "time_mode is: {{time_mode}}" with the
\* placeholder, never with one of the two values in its place.
C34_TimeModeResolvedPerCall ==
  [][/\ \A i \in Starts :
          (sc[i].pc = "dial" /\ sc'[i] # sc[i]) => sc'[i].time_mode = "future"
     /\ \A w \in Sweeps :
          (sw[w].pc = "dial" /\ sw'[w] # sw[w]) => sw'[w].time_mode = "past"
     /\ \A r \in Runs :
          (run[r].pc = "agent" /\ run'[r].pc = "done" /\ run'[r].result = "ok")
            => LET lines == {run'[r].prompt[k] : k \in DOMAIN run'[r].prompt}
               IN /\ "time_mode is: {{time_mode}}" \in lines
                  /\ "time_mode is: past" \notin lines
                  /\ "time_mode is: future" \notin lines]_vars

\* C34 witness: the user's run created the agent with the placeholder in
\* its prompt, a startCall invocation dialed it, and a runDueCalls
\* invocation has just dialed it for a scheduled call
C34_Witness ==
  /\ \E r \in Runs :
       /\ run[r].result = "ok" /\ run[r].agentId # NULL
       /\ \E k \in DOMAIN run[r].prompt : run[r].prompt[k] = "time_mode is: {{time_mode}}"
  /\ \E i \in Starts :
       sc[i].pc = "done" /\ sc[i].result = "ok" /\ sc[i].time_mode = "future"
  /\ \E w \in Sweeps : sw[w].pc = "mark_executed" /\ sw[w].time_mode = "past"

\* C36: when a runDueCalls invocation ends, in whatever way, no scheduled
\* call is executing: every row the invocation claimed has reached
\* executed or failed (one invocation runs at a time, so the executing
\* rows are its own, and once it has finished none is left).
C36_ExecutingResolved ==
  [][\A w \in Sweeps :
       (sw[w].pc # "done" /\ sw'[w].pc = "done")
       => \A k \in DOMAIN scheduled' : scheduled'[k].status # "executing"]_vars

\* C37: once a cancel request for a scheduled call has succeeded (the row
\* is canceled), no runDueCalls invocation inserts a call row for that
\* scheduled call and none sends the outbound-call request for it.
C37_NoDialAfterCancel ==
  [][\A w \in Sweeps :
       (/\ sw[w].pc \in {"insert", "dial"}
        /\ scheduled[Head(sw[w].jobs)].status = "canceled")
       => /\ sw[w].pc = "dial" => sw'[w] = sw[w]
          /\ \A c \in DOMAIN calls' \ DOMAIN calls :
               calls'[c].scheduled_call_id # Head(sw[w].jobs)]_vars

\* the scheduled calls a runDueCalls invocation holds as claimed jobs
JobsOf(rec) == {rec.jobs[n] : n \in DOMAIN rec.jobs}

\* C38: however many runDueCalls invocations run and overlap, at most one
\* call row references a scheduled call; an outbound-call request is sent
\* for a job only once, for the call row that references the job's
\* scheduled call, by the only invocation that holds it; attempt_count
\* changes only when a pending row is claimed, a claim of the fallback
\* path raises it by one, and no row is counted twice.
C38_OneCallPerScheduled ==
  [][/\ \A k \in DOMAIN scheduled' :
          /\ Cardinality({c \in DOMAIN calls' :
                            calls'[c].scheduled_call_id = k}) <= 1
          /\ scheduled'[k].attempt_count <= 1
     /\ \A w \in Sweeps :
          (sw[w].pc = "dial" /\ sw'[w] # sw[w])
          => /\ sw[w].time_mode = NoText
             /\ calls[sw[w].callId].scheduled_call_id = Head(sw[w].jobs)
             /\ \A v \in Sweeps \ {w} : Head(sw[w].jobs) \notin JobsOf(sw[v])
     /\ \A k \in DOMAIN scheduled :
          scheduled'[k].attempt_count # scheduled[k].attempt_count
          => /\ scheduled[k].status = "pending"
             /\ scheduled'[k].status = "executing"
     /\ \A w \in Sweeps :
          (sw[w].pc = "patch" /\ sw'[w] # sw[w])
          => LET id == Head(sw[w].due).id
             IN (scheduled[id].status # scheduled'[id].status
                   \/ id \in JobsOf(sw'[w]))
                => scheduled'[id].attempt_count
                     = scheduled[id].attempt_count + 1]_vars

\* one invocation has claimed a row through the fallback, inserted its
\* call row and sent the outbound-call request, while a second invocation
\* that selected the same row is about to send its claiming PATCH
C38_Witness ==
  \E w, v \in Sweeps :
    /\ w # v
    /\ sw[w].pc = "mark_executed"
    /\ sw[w].time_mode = "past"
    /\ scheduled[Head(sw[w].jobs)].attempt_count = 1
    /\ calls[sw[w].callId].scheduled_call_id = Head(sw[w].jobs)
    /\ sw[v].pc = "patch"
    /\ Head(sw[v].due).id = Head(sw[w].jobs)

\* the invocation's capacity decision finds room
Capacity ==
  Cardinality({c \in DOMAIN calls : calls[c].status \in ActiveStatuses})
    < MAX_CONCURRENT_CALLS

\* a pending row whose instant has passed leaves pending (claimed, or
\* canceled first) as long as the invocations find room
DueEventuallyClaimed ==
  \A k \in 1..MaxDue :
    (/\ k \in DOMAIN scheduled
     /\ scheduled[k].status = "pending"
     /\ scheduled[k].scheduled_for <= now)
    ~> (\/ k \in DOMAIN scheduled /\ scheduled[k].status # "pending"
        \/ ~Capacity)

\* the fallback sends its claiming PATCHes in ascending scheduled_for
\* order: the rows still to be PATCHed are in that order, and none of them
\* is due before a row the invocation has claimed
FallbackAscending ==
  \A w \in Sweeps :
    sw[w].pc = "patch"
    => LET due == sw[w].due
       IN /\ \A i, j \in DOMAIN due :
               i < j => scheduled[due[i].id].scheduled_for
                          <= scheduled[due[j].id].scheduled_for
          /\ \A k \in JobsOf(sw[w]) : \A i \in DOMAIN due :
               scheduled[k].scheduled_for <= scheduled[due[i].id].scheduled_for

\* the fallback claims a row only when no pending row is due before it
NeverPassedOver ==
  \A w \in Sweeps :
    (/\ sw[w].pc = "patch"
     /\ scheduled[Head(sw[w].due).id].status = "pending"
     /\ scheduled'[Head(sw[w].due).id].status = "executing")
    => \A k \in DOMAIN scheduled :
         ~(/\ scheduled[k].status = "pending"
           /\ scheduled[k].scheduled_for
                < scheduled[Head(sw[w].due).id].scheduled_for)

C40_EnqueueReturnsExistingJob ==
  [][\A u \in Users :
       (/\ profiles[u].present
        /\ profiles[u].setup_status \in InProgressOrReady
        /\ jobs[u] > 0
        /\ enq[u] = "idle")
       => /\ timestamps'[u] = timestamps[u]
          /\ jobs'[u] = jobs[u]
          /\ enq'[u] = "idle"]_vars

====
